---- MODULE Spec2Model ----
(***************************************************************************)
(* Conversation state machine and AI orchestration of the framer backend.  *)
(*                                                                         *)
(* Python dicts are modelled as functions whose DOMAIN is the set of keys  *)
(* present (a missing key is a key outside the DOMAIN), lists as           *)
(* sequences, None as the string NoneV.  Coverage scores are floats in     *)
(* tenths (0.6 is 6).  An exception is a record [cls, msg]; the substring  *)
(* tests of call_ai_with_retry are a table over the messages the program   *)
(* can raise.                                                              *)
(***************************************************************************)
EXTENDS Integers, Sequences, FiniteSets, TLC

\* ---------------------------------------------------------------- bounds
MaxTurns == 2
MaxFrames == 2
MaxTransient == 2
MaxRetriesTried == 4

\* ------------------------------------------------------ program constants
max_retries == 4
retry_delay == 1
ReadyThreshold == 6

NoneV == "None"
EmptyDict == [k \in {} |-> NoneV]

SectionKeys ==
  {"problem_statement", "root_cause", "user_perspective",
   "engineering_framing", "validation_thinking"}

\* dict.get(key, default)
DictGet(d, key, default) == IF key \in DOMAIN d THEN d[key] ELSE default

\* ------------------------------------------------------------ exceptions
EmptyAIResponse == [cls |-> "ValueError", msg |-> "Empty AI response"]
JSONDecodeErr == [cls |-> "JSONDecodeError", msg |-> "Unterminated string starting at"]
EmptyContent == [cls |-> "ValueError", msg |-> "Empty content in AI response"]
UnsupportedProvider == [cls |-> "ValueError", msg |-> "Unsupported provider"]
AuthError == [cls |-> "AuthenticationError", msg |-> "Incorrect API key provided"]
QuotaError == [cls |-> "RateLimitError", msg |-> "You exceeded your current quota"]
ConnError == [cls |-> "APIConnectionError", msg |-> "Connection error."]
\* a 401 whose message quotes the body the endpoint sent
AuthErrorEmptyKey == [cls |-> "AuthenticationError", msg |-> "Error code: 401 - Empty API key"]

\* the failures parse_json_response (and the empty-content check) raise
ParseFailures == {EmptyAIResponse, JSONDecodeErr}
\* authentication, quota and connectivity failures of the upstream client
UpstreamFailures == {AuthError, QuotaError, ConnError}

\* isinstance(e, ValueError): json.JSONDecodeError is a subclass of ValueError
IsValueError(e) == e.cls \in {"ValueError", "JSONDecodeError"}

\* `marker in str(e)` for the messages above
MsgContains(msg, marker) ==
  CASE marker = "Empty" -> msg \in {"Empty AI response", "Empty content in AI response",
                                     "Error code: 401 - Empty API key"}
    [] marker = "No JSON" -> msg = "No JSON content found in AI response"
    [] marker = "Expecting value" -> msg = "Expecting value: line 1 column 1 (char 0)"
    [] OTHER -> FALSE

is_retryable(e) ==
  \/ MsgContains(e.msg, "Empty")
  \/ MsgContains(e.msg, "No JSON")
  \/ MsgContains(e.msg, "Expecting value")
  \/ e.cls = "JSONDecodeError"

\* ------------------------------------------------- call_ai_with_retry
\* fn is the sequence of what the wrapped operation does on its 1st, 2nd, ...
\* invocation: [ok |-> TRUE, value |-> v] or [ok |-> FALSE, error |-> e].
\* The result carries the number of invocations and the sleeps performed.
\* variant: the first backoff is already doubled
RECURSIVE retry_loop_doubled(_, _, _, _, _)
retry_loop_doubled(fn, attempt, maxRetries, delay, sleeps) ==
  LET r == fn[attempt + 1] IN
  IF r.ok
    THEN [ok |-> TRUE, value |-> r.value, calls |-> attempt + 1, sleeps |-> sleeps]
    ELSE IF ~is_retryable(r.error) \/ attempt >= maxRetries
      THEN [ok |-> FALSE, error |-> r.error, calls |-> attempt + 1, sleeps |-> sleeps]
      ELSE retry_loop_doubled(fn, attempt + 1, maxRetries, delay,
                              Append(sleeps, delay * (2 ^ (attempt + 1))))

\* variant: the backoff grows linearly
RECURSIVE retry_loop_linear(_, _, _, _, _)
retry_loop_linear(fn, attempt, maxRetries, delay, sleeps) ==
  LET r == fn[attempt + 1] IN
  IF r.ok
    THEN [ok |-> TRUE, value |-> r.value, calls |-> attempt + 1, sleeps |-> sleeps]
    ELSE IF ~is_retryable(r.error) \/ attempt >= maxRetries
      THEN [ok |-> FALSE, error |-> r.error, calls |-> attempt + 1, sleeps |-> sleeps]
      ELSE retry_loop_linear(fn, attempt + 1, maxRetries, delay,
                             Append(sleeps, delay * (attempt + 1)))

RECURSIVE retry_loop(_, _, _, _, _)
retry_loop(fn, attempt, maxRetries, delay, sleeps) ==
  LET r == fn[attempt + 1] IN
  IF r.ok
    THEN [ok |-> TRUE, value |-> r.value, calls |-> attempt + 1, sleeps |-> sleeps]
    ELSE IF ~is_retryable(r.error) \/ attempt >= maxRetries
      THEN [ok |-> FALSE, error |-> r.error, calls |-> attempt + 1, sleeps |-> sleeps]
      ELSE retry_loop(fn, attempt + 1, maxRetries, delay,
                      Append(sleeps, delay * (2 ^ attempt)))

call_ai_with_retry(fn, maxRetries, delay) == retry_loop(fn, 0, maxRetries, delay, <<>>)

Ok(v) == [ok |-> TRUE, value |-> v]
Raise(e) == [ok |-> FALSE, error |-> e]

\* --------------------------------------------------------- configuration
Providers == {"openai", "anthropic", "cohere"}
is_openai_compatible(provider) == provider \in {"openai", "minimax", "glm"}

\* `upstream` is what the provider's client does on each invocation:
\* Ok(v), a reply with content v; Raise(EmptyContent), a reply without
\* content; Raise(e) for a parse failure e, a reply whose content does not
\* parse; Raise(e) for an upstream failure e, the client raising e.

\* _call_ai._do_call: the provider branch, then _call_openai (None content
\* goes to parse_json_response) or _call_anthropic (empty content raises)
DoCall(provider, upstream) ==
  [i \in DOMAIN upstream |->
     IF is_openai_compatible(provider)
       THEN IF upstream[i] = Raise(EmptyContent)
              THEN Raise(EmptyAIResponse) ELSE upstream[i]
       ELSE IF provider = "anthropic"
         THEN upstream[i]
         ELSE Raise(UnsupportedProvider)]

\* _call_ai_text._do_call: `content or ""` for the openai-compatible
\* providers, the empty-content check for anthropic
DoCallText(provider, upstream) ==
  [i \in DOMAIN upstream |->
     IF is_openai_compatible(provider)
       THEN IF upstream[i] = Raise(EmptyContent) THEN Ok("") ELSE upstream[i]
       ELSE IF provider = "anthropic"
         THEN upstream[i]
         ELSE Raise(UnsupportedProvider)]

_call_ai(provider, upstream) ==
  call_ai_with_retry(DoCall(provider, upstream), max_retries, retry_delay)

_call_ai_text(provider, upstream) ==
  call_ai_with_retry(DoCallText(provider, upstream), max_retries, retry_delay)

\* ------------------------------------------------------ ConversationState
DefaultCoverage == [s \in SectionKeys |-> 0]

ConversationState(ft, sc, ec, gaps, ready) ==
  [frame_type |-> ft, sections_covered |-> sc, extracted_content |-> ec,
   gaps |-> gaps, ready_to_synthesize |-> ready]

NewConversationState == ConversationState(NoneV, DefaultCoverage, EmptyDict, <<>>, FALSE)

StateFields ==
  {"frame_type", "sections_covered", "extracted_content", "gaps", "ready_to_synthesize"}

\* ------------------------------------------------------------ process_turn
_language_instruction(language) ==
  IF language = NoneV \/ language = "en" THEN "" ELSE language

\* the system instruction: language prefix + SYSTEM_PROMPT + knowledge
\* snippets (when given) + the current state as JSON
SystemInstruction(state, knowledge_context, language) ==
  [language_instruction |-> _language_instruction(language),
   prompt |-> "SYSTEM_PROMPT",
   knowledge |-> knowledge_context,
   current_state |-> state]

\* the turn sequence: the history plus the new user utterance
ChatMessages(messages, user_message) ==
  [i \in 1..Len(messages) |-> [role |-> messages[i].role, content |-> messages[i].content]]
    \o <<[role |-> "user", content |-> user_message]>>

DefaultResponse == "I need a moment to think about that."

\* raw relevant_knowledge items are tagged with their Python type
NormalizeKnowledge(raw) ==
  LET keep == SelectSeq(raw, LAMBDA item : item.type \in {"dict", "str"})
  IN [i \in 1..Len(keep) |->
        IF keep[i].type = "dict" THEN keep[i].value ELSE [content |-> keep[i].value]]

ConversationTurn(response, updated_state, relevant_knowledge) ==
  [response |-> response, updated_state |-> updated_state,
   relevant_knowledge |-> relevant_knowledge]

\* what a call through the gateway looked like: mode, arguments, number of
\* invocations of the wrapped operation and the backoff sleeps
CallRecord(mode, system, chat, r) ==
  [mode |-> mode, system |-> system, messages |-> chat,
   calls |-> r.calls, sleeps |-> r.sleeps, ok |-> r.ok,
   raised |-> IF r.ok THEN [cls |-> "", msg |-> ""] ELSE r.error]

NoCall == [mode |-> "none"]

\* variant: the degraded turn returns a fresh state
process_turn_fallback_reset(state, system, chat, provider, textUp, sRec) ==
  LET t == _call_ai_text(provider, textUp)
      tRec == CallRecord("text", system, chat, t)
  IN IF t.ok
       THEN [ok |-> TRUE,
             turn |-> ConversationTurn(t.value, NewConversationState, <<>>),
             structured |-> sRec, text |-> tRec, raw |-> t.value]
       ELSE [ok |-> FALSE, error |-> t.error, structured |-> sRec, text |-> tRec]

process_turn_fallback(state, system, chat, provider, textUp, sRec) ==
  LET t == _call_ai_text(provider, textUp)
      tRec == CallRecord("text", system, chat, t)
  IN IF t.ok
       THEN [ok |-> TRUE,
             turn |-> ConversationTurn(t.value, state, <<>>),
             structured |-> sRec, text |-> tRec, raw |-> t.value]
       ELSE [ok |-> FALSE, error |-> t.error, structured |-> sRec, text |-> tRec]

Applicable(frame_type) ==
  IF frame_type = "bug" THEN SectionKeys ELSE SectionKeys \ {"root_cause"}

CoverageReady(frame_type, sections_covered) ==
  \A k \in Applicable(frame_type) : DictGet(sections_covered, k, 0) >= ReadyThreshold

\* variant: a missing field falls back to the empty default
process_turn_build_defaults(state, result) ==
  LET d == DictGet(result, "updated_state", EmptyDict)
      n == NewConversationState
  IN ConversationTurn(
       DictGet(result, "response", DefaultResponse),
       ConversationState(
         DictGet(d, "frame_type", n.frame_type),
         DictGet(d, "sections_covered", n.sections_covered),
         DictGet(d, "extracted_content", n.extracted_content),
         DictGet(d, "gaps", n.gaps),
         DictGet(d, "ready_to_synthesize", n.ready_to_synthesize)),
       NormalizeKnowledge(DictGet(result, "relevant_knowledge", <<>>)))

\* variant: the two mappings are merged key by key into the previous ones
process_turn_build_merge(state, result) ==
  LET d == DictGet(result, "updated_state", EmptyDict)
  IN ConversationTurn(
       DictGet(result, "response", DefaultResponse),
       ConversationState(
         DictGet(d, "frame_type", state.frame_type),
         DictGet(d, "sections_covered", EmptyDict) @@ state.sections_covered,
         DictGet(d, "extracted_content", EmptyDict) @@ state.extracted_content,
         DictGet(d, "gaps", state.gaps),
         DictGet(d, "ready_to_synthesize", state.ready_to_synthesize)),
       NormalizeKnowledge(DictGet(result, "relevant_knowledge", <<>>)))

\* variant: readiness is recomputed from the coverage numbers
process_turn_build_recompute(state, result) ==
  LET d == DictGet(result, "updated_state", EmptyDict)
      ft == DictGet(d, "frame_type", state.frame_type)
      sc == DictGet(d, "sections_covered", state.sections_covered)
  IN ConversationTurn(
       DictGet(result, "response", DefaultResponse),
       ConversationState(
         ft, sc,
         DictGet(d, "extracted_content", state.extracted_content),
         DictGet(d, "gaps", state.gaps),
         DictGet(d, "ready_to_synthesize", state.ready_to_synthesize)
           /\ CoverageReady(ft, sc)),
       NormalizeKnowledge(DictGet(result, "relevant_knowledge", <<>>)))

process_turn_build(state, result) ==
  LET updated_state_data == DictGet(result, "updated_state", EmptyDict)
      updated_state ==
        ConversationState(
          DictGet(updated_state_data, "frame_type", state.frame_type),
          DictGet(updated_state_data, "sections_covered", state.sections_covered),
          DictGet(updated_state_data, "extracted_content", state.extracted_content),
          DictGet(updated_state_data, "gaps", state.gaps),
          DictGet(updated_state_data, "ready_to_synthesize", state.ready_to_synthesize))
      knowledge == NormalizeKnowledge(DictGet(result, "relevant_knowledge", <<>>))
  IN ConversationTurn(DictGet(result, "response", DefaultResponse), updated_state, knowledge)

\* `except (ValueError, json.JSONDecodeError)` around the structured call
FallbackCatches(e) == IsValueError(e)

\* process_turn with the provider of the agent's config; structuredUp and
\* textUp are what upstream does on the invocations of each mode.
\* Returns [ok, turn | error, structured, text] where structured/text
\* describe the gateway calls made.

process_turn(messages, state, user_message, knowledge_context, language, provider, structuredUp, textUp) ==
  LET system == SystemInstruction(state, knowledge_context, language)
      chat == ChatMessages(messages, user_message)
      s == _call_ai(provider, structuredUp)
      sRec == CallRecord("structured", system, chat, s)
  IN IF ~s.ok
       THEN IF FallbackCatches(s.error)
              THEN process_turn_fallback(state, system, chat, provider, textUp, sRec)
              ELSE [ok |-> FALSE, error |-> s.error, structured |-> sRec, text |-> NoCall]
       ELSE [ok |-> TRUE, turn |-> process_turn_build(state, s.value),
             structured |-> sRec, text |-> NoCall, parsed |-> s.value]

\* process_review_turn: free-text only, the state is passed through
ReviewSystemInstruction(frame_content, language) ==
  [language_instruction |-> _language_instruction(language),
   prompt |-> "REVIEW_SYSTEM_PROMPT",
   frame_content |-> frame_content]

process_review_turn(messages, state, user_message, frame_content, language, provider, textUp) ==
  LET system == ReviewSystemInstruction(frame_content, language)
      chat == ChatMessages(messages, user_message)
      t == _call_ai_text(provider, textUp)
      tRec == CallRecord("text", system, chat, t)
  IN IF t.ok
       THEN [ok |-> TRUE, turn |-> ConversationTurn(t.value, state, <<>>),
             structured |-> NoCall, text |-> tRec]
       ELSE [ok |-> FALSE, error |-> t.error, structured |-> NoCall, text |-> tRec]

\* ------------------------------------------------------- upstream behaviour
\* What upstream does on the invocations of one gateway call: `k` times
\* `flaky`, then `final` on every later invocation.
Upstream(k, flaky, final) ==
  [i \in 1..(max_retries + 1) |-> IF i <= k THEN Raise(flaky) ELSE final]

\* parsed structured answers of a turn.  updated_state carries each of the
\* five fields or omits it.
HighCoverage == [s \in SectionKeys |-> IF s = "root_cause" THEN 0 ELSE 10]
PartialCoverage == ("user_perspective" :> 5)
Extracted1 == ("problem_statement" :> "login fails")

Opt(key, values) == {EmptyDict} \cup {(key :> v) : v \in values}

UpdatedStates ==
  {a @@ b @@ c @@ d @@ e :
     a \in Opt("frame_type", {"bug", "feature"}),
     b \in Opt("sections_covered", {HighCoverage, PartialCoverage}),
     c \in Opt("extracted_content", {Extracted1}),
     d \in Opt("gaps", {<<"who is affected">>}),
     e \in Opt("ready_to_synthesize", {TRUE, FALSE})}

TurnAnswers ==
  {[response |-> "r1", updated_state |-> u] : u \in UpdatedStates}
    \cup {EmptyDict}
    \cup {[response |-> "r1",
           relevant_knowledge |-> <<[type |-> "str", value |-> "k1"]>>]}

\* answers whose updated_state carries all five fields
CompleteAnswers ==
  {a \in TurnAnswers :
     "updated_state" \in DOMAIN a /\ DOMAIN a.updated_state = StateFields}

\* the complete answers drawn where the whole service is explored
ServiceAnswers == {a \in CompleteAnswers : a.updated_state.frame_type = "bug"}

TextAnswers == {"t1"}

AllFailures == ParseFailures \cup {EmptyContent} \cup UpstreamFailures
\* the failures drawn where the whole service is explored
ServiceFailures == {EmptyContent, AuthError}

Finals(answers, failures) == {Ok(a) : a \in answers} \cup {Raise(e) : e \in failures}

\* how many transient failures precede the final upstream behaviour
TransientRuns == {0, MaxTransient}
\* structured mode: blank content first, then the final behaviour
Ups(answers, failures) ==
  {Upstream(k, EmptyAIResponse, f) : k \in TransientRuns, f \in Finals(answers, failures)}
\* text mode: nothing is parsed, so a reply is text or has no content
TextUps(failures) ==
  {Upstream(k, EmptyContent, f) :
     k \in TransientRuns, f \in Finals(TextAnswers, failures \ ParseFailures)}
UnusedUp == Upstream(0, EmptyContent, Ok("t1"))

\* the text call is consulted only when the structured call raised an error
\* the fallback catches
TextUpsFor(provider, structuredUp, failures) ==
  LET s == _call_ai(provider, structuredUp)
  IN IF ~s.ok /\ FallbackCatches(s.error)
       THEN TextUps(failures) ELSE {UnusedUp}

\* ================================================================= state
VARIABLES
  ai_config,       \* provider of the _ai_config singleton
  conv_meta,       \* meta.yaml of the conversation: status, purpose, frame_id
  conv_messages,   \* messages.json
  conv_state,      \* state.json
  frames,          \* frame store: frames[i] is the frame with id i
  last,            \* the last request handled: what was asked, what came back
  probe            \* process_turn applied on its own: state, inputs, result

vars == <<ai_config, conv_meta, conv_messages, conv_state, frames, last, probe>>

NoError == [cls |-> "", msg |-> ""]
NoTurn == [response |-> "", updated_state |-> [frame_type |-> NoneV], relevant_knowledge |-> <<>>]
NoAI == [raised |-> NoError, text |-> FALSE, seen |-> NoneV, knowledge |-> NoneV]

\* the gateway calls of a turn: what the structured call raised, whether a
\* free-text call was made, the state and the knowledge snippets handed to
\* the agent
AISummary(r) ==
  [raised |-> IF r.structured.mode = "none" THEN NoError ELSE r.structured.raised,
   text |-> r.text.mode # "none",
   seen |-> [sections_covered |-> r.given.sections_covered,
             extracted_content |-> r.given.extracted_content],
   knowledge |-> IF r.structured.mode = "none" THEN NoneV
                 ELSE r.structured.system.knowledge]

\* every handler leaves the record of its request in `last`
\* (`found` is the status get_conversation read)
Handled(op, found, request, code, error, turn, ai) ==
  [op |-> op, found |-> found, request |-> request, code |-> code,
   error |-> error, turn |-> turn, ai |-> ai]

NoResult == [ok |-> FALSE, error |-> NoError, structured |-> NoCall, text |-> NoCall]
NoProbe == [n |-> 0, prev |-> NewConversationState, result |-> NoResult]

NoRequest ==
  [op |-> "none", found |-> NoneV, request |-> "", code |-> 0, error |-> NoError,
   turn |-> NoTurn, ai |-> NoAI]

\* ----------------------------------------------------- ConversationService
\* add_message: msg-{len+1:03d}, appended to messages.json
add_message(messages, role, content) ==
  Append(messages, [id |-> Len(messages) + 1, role |-> role, content |-> content])

update_status(meta, status) == [meta EXCEPT !.status = status]
\* variant: the link is not written
link_frame_lost(meta, frame_id) == meta

link_frame(meta, frame_id) == [meta EXCEPT !.frame_id = frame_id]

\* create_conversation: ConversationMeta defaults, empty messages, new state
create_conversation(owner, purpose, frame_id) ==
  [status |-> "active", owner |-> owner, purpose |-> purpose, frame_id |-> frame_id]

\* ------------------------------------------------------------ FrameService
FrameTypes == {"bug", "feature", "exploration"}

\* FrameContent(problem_statement=content.get("problem_statement", ""), ...)
FrameContent(content) == [k \in SectionKeys |-> DictGet(content, k, "")]

FrameExists(fs, frame_id) == frame_id \in 1..Len(fs) /\ fs[frame_id].exists

\* create_frame: a fresh id, status draft, the content written to frame.md
create_frame(fs, frame_type, owner, content) ==
  Append(fs, [exists |-> TRUE, type |-> frame_type, owner |-> owner, content |-> content,
              status |-> "draft", reviewer |-> NoneV, approver |-> NoneV])

\* update_frame_content: rewrites frame.md of an existing frame
update_frame_content(fs, frame_id, content) ==
  [fs EXCEPT ![frame_id].content = content]

FrameStatuses == {"draft", "in_review", "ready", "feedback", "archived"}

\* FrameMeta.to_yaml / from_yaml: a role is written only when it is truthy,
\* and read back as None when absent
StoredRole(role) == IF role = "" THEN NoneV ELSE role

\* update_frame_meta: `if reviewer is not None: meta.reviewer = reviewer`
\* (and the same for approver), then meta.yaml is rewritten
update_frame_meta(fs, frame_id, reviewer, approver) ==
  [fs EXCEPT ![frame_id].reviewer = StoredRole(IF reviewer # NoneV THEN reviewer ELSE @),
             ![frame_id].approver = StoredRole(IF approver # NoneV THEN approver ELSE @)]

RoleMissing(role) == [cls |-> "ValueError", msg |-> role \o " must be assigned"]

\* variant: the status is written whatever roles are assigned
update_frame_status_ungated(fs, frame_id, status) ==
  [ok |-> TRUE, frames |-> [fs EXCEPT ![frame_id].status = status]]

\* update_frame_status: the reviewer/approver checks come before the write
update_frame_status(fs, frame_id, status) ==
  IF status = "in_review" /\ fs[frame_id].reviewer = NoneV
    THEN [ok |-> FALSE, error |-> RoleMissing("reviewer"), frames |-> fs]
    ELSE IF status = "ready" /\ fs[frame_id].approver = NoneV
      THEN [ok |-> FALSE, error |-> RoleMissing("approver"), frames |-> fs]
      ELSE [ok |-> TRUE, frames |-> [fs EXCEPT ![frame_id].status = status]]

\* ------------------------------------------------------------- GitService
\* what commit_frame_changes does: it commits, or it raises
GitOutcomes == {"ok", "raise"}
GitError == [cls |-> "GitCommandError", msg |-> "git commit failed"]

\* variant: a failed commit propagates
_git_commit_fatal(outcome) == IF outcome = "raise" THEN GitError ELSE NoError

\* _git_commit: `except Exception as e: logger.warning(...)`; what the
\* caller sees raised
_git_commit(outcome) == NoError

\* variant: a failed commit propagates out of synthesize_frame
synthesize_commit_fatal(outcome) == IF outcome = "raise" THEN GitError ELSE NoError

\* synthesize_frame's own `try: commit_frame_changes(...) except Exception: pass`
synthesize_commit(outcome) == NoError

\* -------------------------------------------- ConversationAgent.synthesize_frame
\* variant: the reply's keys are returned as they came
agent_synthesize_frame_sparse(provider, upstream) ==
  LET r == _call_ai(provider, upstream)
  IN IF r.ok
       THEN [ok |-> TRUE, content |-> r.value,
             calls |-> r.calls, text |-> FALSE, raised |-> [cls |-> "", msg |-> ""]]
       ELSE [ok |-> FALSE, error |-> r.error, calls |-> r.calls, text |-> FALSE,
             raised |-> r.error]

\* variant: a transient failure degrades to an empty free-text synthesis
agent_synthesize_frame_degrade(provider, upstream) ==
  LET r == _call_ai(provider, upstream)
  IN IF r.ok
       THEN [ok |-> TRUE, content |-> [k \in SectionKeys |-> DictGet(r.value, k, "")],
             calls |-> r.calls, text |-> FALSE, raised |-> [cls |-> "", msg |-> ""]]
       ELSE IF IsValueError(r.error)
         THEN [ok |-> TRUE, content |-> [k \in SectionKeys |-> ""],
               calls |-> r.calls, text |-> TRUE, raised |-> r.error]
         ELSE [ok |-> FALSE, error |-> r.error, calls |-> r.calls, text |-> FALSE,
               raised |-> r.error]

agent_synthesize_frame(provider, upstream) ==
  LET r == _call_ai(provider, upstream)
  IN IF r.ok
       THEN [ok |-> TRUE, content |-> [k \in SectionKeys |-> DictGet(r.value, k, "")],
             calls |-> r.calls, text |-> FALSE, raised |-> NoError]
       ELSE [ok |-> FALSE, error |-> r.error, calls |-> r.calls, text |-> FALSE,
             raised |-> r.error]

SynthAI(a) == [raised |-> a.raised, text |-> a.text, seen |-> NoneV, knowledge |-> NoneV]

FullSynthesis == [k \in SectionKeys |-> "text"]
SynthAnswers == {FullSynthesis, ("problem_statement" :> "p")}
SynthUps == Ups(SynthAnswers, ServiceFailures)

\* ================================================================ handlers
\* a request body with what the knowledge search does for its content
MessageRequests ==
  {[content |-> "u1", language |-> NoneV, search |-> "raise"],
   [content |-> "u2", language |-> "zh", search |-> "hit"]}
\* the search returns results, returns none, or raises (`except: pass`)
KnowledgeContext(search) ==
  CASE search = "hit" -> "- k1"
    [] search = "empty" -> ""
    [] search = "raise" -> ""

\* frame content rendered into the review system instruction
ReviewFrameContent(fs, frame_id) ==
  IF FrameExists(fs, frame_id) THEN fs[frame_id].content ELSE "(Frame content unavailable)"

\* POST /{conv_id}/message, after the conversation was read and found
\* active or synthesized: the AI turn, then the three writes
\* variant: the turn starts from a fresh state instead of the stored one
send_message_turn_reset(meta, content, language, search, provider, structuredUp, textUp) ==
  LET state == NewConversationState
  IN [given |-> state] @@
     IF meta.purpose = "review" /\ meta.frame_id # 0
       THEN process_review_turn(conv_messages, state, content,
                                ReviewFrameContent(frames, meta.frame_id), language,
                                provider, textUp)
       ELSE process_turn(conv_messages, state, content, KnowledgeContext(search),
                         language, provider, structuredUp, textUp)

\* variant: a failing search fails the turn
send_message_turn_search_fatal(meta, content, language, search, provider, structuredUp, textUp) ==
  LET state == conv_state
  IN [given |-> state] @@
     IF search = "raise"
       THEN [ok |-> FALSE, error |-> [cls |-> "RuntimeError", msg |-> "search failed"],
             structured |-> NoCall, text |-> NoCall]
     ELSE IF meta.purpose = "review" /\ meta.frame_id # 0
       THEN process_review_turn(conv_messages, state, content,
                                ReviewFrameContent(frames, meta.frame_id), language,
                                provider, textUp)
       ELSE process_turn(conv_messages, state, content, KnowledgeContext(search),
                         language, provider, structuredUp, textUp)

\* `given` is conv.state as read by get_conversation and handed to the agent
send_message_turn(meta, content, language, search, provider, structuredUp, textUp) ==
  LET state == conv_state
  IN [given |-> state] @@
     IF meta.purpose = "review" /\ meta.frame_id # 0
       THEN process_review_turn(conv_messages, state, content,
                                ReviewFrameContent(frames, meta.frame_id), language,
                                provider, textUp)
       ELSE process_turn(conv_messages, state, content, KnowledgeContext(search),
                         language, provider, structuredUp, textUp)

\* variant: the user message is saved whatever the AI call did
send_message_finish_eager(meta, content, r) ==
  /\ conv_meta' = meta
  /\ IF r.ok
       THEN /\ conv_messages' =
                 add_message(add_message(conv_messages, "user", content),
                             "assistant", r.turn.response)
            /\ conv_state' = r.turn.updated_state
            /\ last' = Handled("message", conv_meta.status, content, 200, NoError, r.turn, AISummary(r))
       ELSE /\ conv_messages' = add_message(conv_messages, "user", content)
            /\ UNCHANGED conv_state
            /\ last' = Handled("message", conv_meta.status, content, 502, r.error, NoTurn, AISummary(r))

\* variant: a turn the model flags ready moves the conversation on
send_message_finish_auto(meta, content, r) ==
  IF r.ok
    THEN /\ conv_meta' = IF r.turn.updated_state.ready_to_synthesize
                           THEN update_status(meta, "synthesized") ELSE meta
         /\ conv_messages' =
              add_message(add_message(conv_messages, "user", content),
                          "assistant", r.turn.response)
         /\ conv_state' = r.turn.updated_state
         /\ last' = Handled("message", conv_meta.status, content, 200, NoError, r.turn, AISummary(r))
    ELSE /\ conv_meta' = meta
         /\ UNCHANGED <<conv_messages, conv_state>>
         /\ last' = Handled("message", conv_meta.status, content, 502, r.error, NoTurn, AISummary(r))

\* variant: the reply is saved before the user message
send_message_finish_reply_first(meta, content, r) ==
  /\ conv_meta' = meta
  /\ IF r.ok
       THEN /\ conv_messages' =
                 add_message(add_message(conv_messages, "assistant", r.turn.response),
                             "user", content)
            /\ conv_state' = r.turn.updated_state
            /\ last' = Handled("message", conv_meta.status, content, 200, NoError, r.turn, AISummary(r))
       ELSE /\ UNCHANGED <<conv_messages, conv_state>>
            /\ last' = Handled("message", conv_meta.status, content, 502, r.error, NoTurn, AISummary(r))

\* the end of the handler: the status write made before the turn is in
\* `meta`; the three writes happen only after the turn returned
send_message_finish(meta, content, r) ==
  /\ conv_meta' = meta
  /\ IF r.ok
       THEN /\ conv_messages' =
                 add_message(add_message(conv_messages, "user", content),
                             "assistant", r.turn.response)
            /\ conv_state' = r.turn.updated_state
            /\ last' = Handled("message", conv_meta.status, content, 200, NoError, r.turn, AISummary(r))
       ELSE /\ UNCHANGED <<conv_messages, conv_state>>
            /\ last' = Handled("message", conv_meta.status, content, 502, r.error, NoTurn, AISummary(r))

ConversationStatuses == {"active", "synthesized", "abandoned"}

\* send_message: synthesized is reactivated, anything else but active is 400
message_rejects(status) == status # "synthesized" /\ status # "active"

\* variant: only a conversation already synthesized is turned away
synthesize_rejects_done(status) == status = "synthesized"

\* synthesize_frame: `conv.status not in (ACTIVE, SYNTHESIZED)` is 400
synthesize_rejects(status) == status \notin {"active", "synthesized"}

IsReviewTurn(meta) == meta.purpose = "review" /\ meta.frame_id # 0

\* what the file store does on the three writes of a turn: all succeed, or
\* the named one raises before it wrote
StoreOutcomes == {"ok", "fail_user", "fail_assistant", "fail_state"}
StoreError == [cls |-> "OSError", msg |-> "No space left on device"]

\* the handler when one of the writes after the turn raises: the writes
\* before it stay, the error is not handled (500)
send_message_partial(meta, content, r, store) ==
  /\ conv_meta' = meta
  /\ conv_messages' =
       CASE store = "fail_user" -> conv_messages
         [] store = "fail_assistant" -> add_message(conv_messages, "user", content)
         [] store = "fail_state" ->
              add_message(add_message(conv_messages, "user", content),
                          "assistant", r.turn.response)
  /\ conv_state' = conv_state
  /\ last' = Handled("message", conv_meta.status, content, 500, StoreError, r.turn, AISummary(r))

\* the end of the handler under a given store behaviour
send_message_end(meta, content, r, store) ==
  IF store = "ok" \/ ~r.ok
    THEN send_message_finish(meta, content, r)
    ELSE send_message_partial(meta, content, r, store)

\* POST /{conv_id}/message with the store behaving as one of `stores` and
\* the model answering one of `answers`
SendMessage(stores, answers) ==
  /\ Len(conv_messages) < 2 * MaxTurns
  /\ UNCHANGED <<ai_config, frames, probe>>
  /\ \E request \in MessageRequests :
       LET content == request.content
           language == request.language
           search == request.search
       IN
       IF message_rejects(conv_meta.status)
         THEN /\ last' = Handled("message", conv_meta.status, content, 400, NoError, NoTurn, NoAI)
              /\ UNCHANGED <<conv_meta, conv_messages, conv_state>>
         ELSE LET meta == IF conv_meta.status = "synthesized"
                            THEN update_status(conv_meta, "active")
                            ELSE conv_meta
              IN IF IsReviewTurn(meta)
                   THEN \E textUp \in TextUps(ServiceFailures), store \in stores :
                          send_message_end(meta, content,
                            send_message_turn(meta, content, language, search,
                                              ai_config, UnusedUp, textUp), store)
                   ELSE \E structuredUp \in Ups(answers, ServiceFailures) :
                        \E textUp \in TextUpsFor(ai_config, structuredUp, ServiceFailures) :
                        \E store \in stores :
                          send_message_end(meta, content,
                            send_message_turn(meta, content, language, search,
                                              ai_config, structuredUp, textUp), store)

\* the service with a store whose writes succeed
send_message == SendMessage({"ok"}, ServiceAnswers)

\* the service with a store whose writes can fail
send_message_store == SendMessage(StoreOutcomes, ServiceAnswers)

\* answers whose updated_state is well typed (a string category, a mapping
\* of strings to numbers) but outside what the prompt asks for
OverCoverage == [k \in SectionKeys |-> 15]
ExtraCoverage == ("summary" :> 5) @@ PartialCoverage
OddAnswers ==
  {[response |-> "r1",
    updated_state |-> ConversationState(ft, sc, Extracted1, <<>>, FALSE)] :
     ft \in {"bug", "incident"}, sc \in {HighCoverage, OverCoverage, ExtraCoverage}}

\* message turns alone, the model answering in or out of range
ValueAnswers == ServiceAnswers \cup OddAnswers
send_message_values == SendMessage({"ok"}, ValueAnswers)


\* SynthesizeResponse(frame_id=frame.id, content=content), with what the
\* commit did
SynthesizeResponse(frame_id, content, git) ==
  [response |-> [frame_id |-> frame_id, content |-> content], git |-> git]

\* the end of synthesize_frame once the frame is written and linked (meta,
\* fs): the commit, then update_status(SYNTHESIZED) and the response
synthesize_end(meta, fs, frame_id, a, git) ==
  LET e == synthesize_commit(git)
  IN IF e # NoError
       THEN [meta |-> meta, frames |-> fs,
             last |-> [git |-> git] @@
                      Handled("synthesize", meta.status, "", 500, e, NoTurn, SynthAI(a))]
       ELSE [meta |-> update_status(meta, "synthesized"), frames |-> fs,
             last |-> SynthesizeResponse(frame_id, a.content, git) @@
                      Handled("synthesize", meta.status, "", 200, NoError, NoTurn, SynthAI(a))]

\* POST /{conv_id}/synthesize with no precomputed content: the status check,
\* the synthesis call, the frame write, the link, the commit and the status
\* write.  The embedding and evaluation that follow swallow their own
\* failures and write nothing of the conversation.  `gits` is what the
\* version history may do on the commit.
SynthesizeFrame(gits) ==
  /\ UNCHANGED <<ai_config, conv_messages, conv_state, probe>>
  /\ IF synthesize_rejects(conv_meta.status)
       THEN /\ last' = Handled("synthesize", conv_meta.status, "", 400, NoError, NoTurn, NoAI)
            /\ UNCHANGED <<conv_meta, frames>>
       ELSE \E upstream \in SynthUps, git \in gits :
              LET a == agent_synthesize_frame(ai_config, upstream)
                  frame_type_str == IF conv_state.frame_type # NoneV
                                      THEN conv_state.frame_type ELSE "feature"
                  existing_frame_id == conv_meta.frame_id
              IN IF ~a.ok
                   THEN /\ last' = Handled("synthesize", conv_meta.status, "", 500, a.error, NoTurn, SynthAI(a))
                        /\ UNCHANGED <<conv_meta, frames>>
                   ELSE IF frame_type_str \notin FrameTypes
                     THEN /\ last' = Handled("synthesize", conv_meta.status, "", 500,
                                       [cls |-> "ValueError", msg |-> "not a valid FrameType"],
                                       NoTurn, SynthAI(a))
                          /\ UNCHANGED <<conv_meta, frames>>
                     ELSE IF existing_frame_id # 0 /\ FrameExists(frames, existing_frame_id)
                       THEN LET end == synthesize_end(
                                         conv_meta,
                                         update_frame_content(frames, existing_frame_id,
                                                              FrameContent(a.content)),
                                         existing_frame_id, a, git)
                            IN /\ frames' = end.frames
                               /\ conv_meta' = end.meta
                               /\ last' = end.last
                       ELSE /\ Len(frames) < MaxFrames
                            /\ LET end == synthesize_end(
                                            link_frame(conv_meta, Len(frames) + 1),
                                            create_frame(frames, frame_type_str, conv_meta.owner,
                                                         FrameContent(a.content)),
                                            Len(frames) + 1, a, git)
                               IN /\ frames' = end.frames
                                  /\ conv_meta' = end.meta
                                  /\ last' = end.last

\* the version history working
synthesize_frame == SynthesizeFrame({"ok"})

\* the version history working or failing
synthesize_frame_git == SynthesizeFrame(GitOutcomes)

\* PUT /admin/config followed by reload_ai_config
reload_ai_config ==
  /\ \E provider \in Providers : ai_config' = provider
  /\ ai_config' # ai_config
  /\ last' = Handled("config", NoneV, "", 200, NoError, NoTurn, NoAI)
  /\ UNCHANGED <<conv_meta, conv_messages, conv_state, frames, probe>>

\* ------------------------------------------------------------ specification
Purposes == {"authoring", "review"}
\* the owner of the conversation, and the owner of the frame under review
ConvOwner == "reviewer"
FrameAuthor == "author"

\* a new conversation of either purpose, started with or without a link to
\* frame 1 (start_conversation takes both as given).  No handler writes the
\* status abandoned: a conversation is only ever found in it, as stored.
Init ==
  /\ ai_config \in Providers
  /\ \E purpose \in Purposes, frame_id \in {0, 1}, status \in {"active", "abandoned"} :
       /\ conv_meta = update_status(create_conversation(ConvOwner, purpose, frame_id), status)
       /\ frames = IF frame_id = 1
                     THEN create_frame(<<>>, "feature", FrameAuthor, FrameContent(FullSynthesis))
                     ELSE <<>>
  /\ conv_messages = <<>>
  /\ conv_state = NewConversationState
  /\ last = NoRequest
  /\ probe = NoProbe

Next == send_message \/ synthesize_frame \/ reload_ai_config

Spec == Init /\ [][Next]_vars

\* message turns against a store whose writes can fail
NextStore == send_message_store

SpecStore == Init /\ [][NextStore]_vars

\* message turns alone, the model answering in or out of range
NextValues == send_message_values

SpecValues == Init /\ [][NextValues]_vars

\* ------------------------------------------- process_turn applied on its own
\* states one successful turn on a new conversation can store
StoredStates ==
  {NewConversationState} \cup
  {process_turn_build(NewConversationState, a).updated_state : a \in CompleteAnswers}

ProbeInputs ==
  {[user_message |-> "u1", knowledge_context |-> "", language |-> NoneV],
   [user_message |-> "u2", knowledge_context |-> "- k1", language |-> "zh"]}

ProbeHistory == <<[id |-> 1, role |-> "user", content |-> "u0"],
                  [id |-> 2, role |-> "assistant", content |-> "r0"]>>

InitTurn ==
  /\ ai_config \in Providers
  /\ conv_meta = create_conversation(ConvOwner, "authoring", 0)
  /\ conv_messages = ProbeHistory
  /\ conv_state \in StoredStates
  /\ frames = <<>>
  /\ last = NoRequest
  /\ probe = [NoProbe EXCEPT !.prev = conv_state]

ProbeTurn ==
  /\ probe.n = 0
  /\ UNCHANGED <<ai_config, conv_meta, conv_messages, conv_state, frames, last>>
  /\ \E in \in ProbeInputs :
     \E structuredUp \in Ups(TurnAnswers, AllFailures) :
     \E textUp \in TextUpsFor(ai_config, structuredUp, AllFailures) :
       probe' = [n |-> 1, prev |-> conv_state,
                 result |-> process_turn(conv_messages, conv_state, in.user_message,
                                         in.knowledge_context, in.language,
                                         ai_config, structuredUp, textUp)]

NextTurn == ProbeTurn

SpecTurn == InitTurn /\ [][NextTurn]_vars

\* ------------------------------------ call_ai_with_retry applied on its own
\* what the wrapped operation can do on one invocation
RetryOutcomes ==
  {Ok("v")} \cup
  {Raise(e) : e \in {EmptyAIResponse, JSONDecodeErr, AuthError, QuotaError,
                      ConnError, AuthErrorEmptyKey}}

RECURSIVE SeqsOf(_, _)
SeqsOf(S, n) ==
  IF n = 0 THEN {<<>>} ELSE {Append(q, x) : q \in SeqsOf(S, n - 1), x \in S}

RetryDelays == {retry_delay, 3 * retry_delay}

InitRetry ==
  /\ ai_config = "openai"
  /\ conv_meta = create_conversation(ConvOwner, "authoring", 0)
  /\ conv_messages = <<>>
  /\ conv_state = NewConversationState
  /\ frames = <<>>
  /\ last = NoRequest
  /\ probe = NoProbe

\* one application: fn is what the operation does on each invocation
ProbeRetry ==
  /\ probe.n = 0
  /\ UNCHANGED <<ai_config, conv_meta, conv_messages, conv_state, frames, last>>
  /\ \E n \in 0..MaxRetriesTried, delay \in RetryDelays :
     \E fn \in SeqsOf(RetryOutcomes, n + 1) :
       probe' = [n |-> 1, fn |-> fn, max_retries |-> n, retry_delay |-> delay,
                 result |-> call_ai_with_retry(fn, n, delay)]

NextRetry == ProbeRetry

SpecRetry == InitRetry /\ [][NextRetry]_vars

\* ------------------------------------------------ the frames API, with git
\* The handlers of api/frames.py and synthesize, each followed by the commit
\* to the version history, which may fail.  A handler that reached its
\* commit records what the commit did (git) next to what it was asked.
FrameHandled(op, frame_id, found, code, error, asked) ==
  asked @@ [frame_id |-> frame_id] @@ Handled(op, found, "", code, error, NoTurn, NoAI)

\* the response once the mutation is written: the commit, then 200/201
AfterCommit(op, frame_id, found, code, asked, e) ==
  IF e # NoError
    THEN FrameHandled(op, frame_id, found, 500, e, asked)
    ELSE FrameHandled(op, frame_id, found, code, NoError, asked)

EditedContent == ("problem_statement" :> "edited")
\* the frames asked for: the first one, and one that was never created
FrameRequests == {1, MaxFrames + 1}
StatusRequests == {"draft", "in_review", "ready"}
MetaRequests ==
  {[reviewer |-> "reviewer1", approver |-> NoneV],
   [reviewer |-> NoneV, approver |-> "approver1"],
   [reviewer |-> "", approver |-> NoneV]}

\* POST /frames
frames_create_frame ==
  /\ Len(frames) < MaxFrames
  /\ \E git \in GitOutcomes :
       /\ frames' = create_frame(frames, "bug", FrameAuthor, FrameContent(EmptyDict))
       /\ last' = AfterCommit("frame_create", Len(frames) + 1, NoneV, 201,
                              [git |-> git], _git_commit(git))
  /\ UNCHANGED <<ai_config, conv_meta, conv_messages, conv_state, probe>>

\* PUT /frames/{frame_id}
frames_update_frame ==
  /\ \E frame_id \in FrameRequests, git \in GitOutcomes :
       IF ~FrameExists(frames, frame_id)
         THEN /\ last' = FrameHandled("frame_update", frame_id, NoneV, 404, NoError, <<>>)
              /\ UNCHANGED frames
         ELSE /\ frames' = update_frame_content(frames, frame_id, FrameContent(EditedContent))
              /\ last' = AfterCommit("frame_update", frame_id, frames[frame_id].status, 200,
                                     [git |-> git, content |-> FrameContent(EditedContent)],
                                     _git_commit(git))
  /\ UNCHANGED <<ai_config, conv_meta, conv_messages, conv_state, probe>>

\* PATCH /frames/{frame_id}/status: a ValueError of the service is 400
frames_update_status ==
  /\ \E frame_id \in FrameRequests, status \in StatusRequests, git \in GitOutcomes :
       IF ~FrameExists(frames, frame_id)
         THEN /\ last' = FrameHandled("frame_status", frame_id, NoneV, 404, NoError, <<>>)
              /\ UNCHANGED frames
         ELSE LET r == update_frame_status(frames, frame_id, status)
              IN /\ frames' = r.frames
                 /\ last' = IF ~r.ok
                              THEN FrameHandled("frame_status", frame_id,
                                                frames[frame_id].status, 400, r.error,
                                                [status |-> status])
                              ELSE AfterCommit("frame_status", frame_id,
                                               frames[frame_id].status, 200,
                                               [git |-> git, status |-> status],
                                               _git_commit(git))
  /\ UNCHANGED <<ai_config, conv_meta, conv_messages, conv_state, probe>>

\* PATCH /frames/{frame_id}/meta
frames_update_meta ==
  /\ \E frame_id \in FrameRequests, roles \in MetaRequests, git \in GitOutcomes :
       IF ~FrameExists(frames, frame_id)
         THEN /\ last' = FrameHandled("frame_meta", frame_id, NoneV, 404, NoError, <<>>)
              /\ UNCHANGED frames
         ELSE /\ frames' = update_frame_meta(frames, frame_id, roles.reviewer, roles.approver)
              /\ last' = AfterCommit("frame_meta", frame_id, frames[frame_id].status, 200,
                                     [git |-> git], _git_commit(git))
  /\ UNCHANGED <<ai_config, conv_meta, conv_messages, conv_state, probe>>

NextFrames ==
  \/ synthesize_frame_git
  \/ frames_create_frame
  \/ frames_update_frame
  \/ frames_update_status
  \/ frames_update_meta

SpecFrames == Init /\ [][NextFrames]_vars

\* ------------------------------ requests in flight on one conversation
\* The handlers of one conversation unfolded into the steps the server can
\* interleave.  send_message, preview_frame, synthesize_frame and
\* summarize_review are coroutines of one event loop: each runs without
\* interruption by another coroutine from its start to its AI call and from
\* the AI's answer to its end.  get_conversation and delete_conversation are
\* plain functions, which the server runs on worker threads: they can fall
\* between any two service calls of a coroutine.
\* probe holds the requests (reqs), the coroutine that is between the AI's
\* answer and its end (running, 0 when none) and the number of requests
\* received.  A request keeps what it read (conv, frame_content), what the
\* AI answered (turn, content), the writes it still has to make (todo), the
\* ids of the messages it wrote, the frame it wrote, its response (code,
\* error) and the point it had reached when the conversation was deleted
\* (gone) and its place in the order of arrival (n).
\* a conversation whose directory was removed
DeletedMeta == [status |-> "deleted", owner |-> "", purpose |-> "", frame_id |-> 0]

\* conv_dir.exists()
conv_dir_exists(meta) == meta.status # "deleted"

ConversationNotFound ==
  [cls |-> "ConversationNotFoundError", msg |-> "Conversation not found"]

Conversation(meta, messages, state) == [meta |-> meta, messages |-> messages, state |-> state]

\* variant: a missing directory is read as it is
get_conversation_unchecked(meta, messages, state) ==
  [ok |-> TRUE, conv |-> Conversation(meta, messages, state)]

\* get_conversation: not-found when the directory is missing
get_conversation(meta, messages, state) ==
  IF ~conv_dir_exists(meta)
    THEN [ok |-> FALSE, error |-> ConversationNotFound,
          conv |-> Conversation(meta, messages, state)]
    ELSE [ok |-> TRUE, conv |-> Conversation(meta, messages, state)]

\* variant: the message is appended to the list the handler read
read_messages_held(stored, held) == held

\* add_message reads messages.json again before it appends
read_messages(stored, held) == stored

\* variant: the status is written before the link
synthesize_writes_status_first(existing_frame_id) ==
  IF existing_frame_id # 0 THEN <<"frame", "status">> ELSE <<"frame", "status", "link">>

\* the service calls of synthesize_frame after the AI answered: the frame
\* write, link_frame when a frame was created, update_status(SYNTHESIZED)
synthesize_writes(existing_frame_id) ==
  IF existing_frame_id # 0 THEN <<"frame", "status">> ELSE <<"frame", "link", "status">>

\* the service calls of send_message after the AI answered
send_message_writes == <<"user", "assistant", "state">>

\* the two requests that can be in flight together
Requests == {1, 2}
AsyncOps == {"message", "preview", "synthesize", "summarize"}

\* what request i sends and what the model answers it
UserContent(i) == "u" \o ToString(i)
Reply(i) == "r" \o ToString(i)
TurnAnswer(i) ==
  [response |-> Reply(i),
   updated_state |-> ConversationState("bug", PartialCoverage, Extracted1,
                                       <<"gap " \o ToString(i)>>, FALSE)]
Synthesis(i) == [k \in SectionKeys |-> "s" \o ToString(i)]

IdleRequest ==
  [pc |-> "idle", op |-> "none", conv |-> Conversation(DeletedMeta, <<>>, NewConversationState),
   frame_content |-> "", turn |-> NoTurn, content |-> EmptyDict, todo |-> <<>>,
   ids |-> <<>>, frame_id |-> 0, code |-> 0, error |-> NoError, gone |-> "no", n |-> 0]

\* the request as the handler leaves it
Responded(req, code, error) ==
  [req EXCEPT !.pc = "done", !.code = code, !.error = error, !.todo = <<>>]

InitConc ==
  /\ ai_config = "openai"
  /\ \E purpose \in Purposes, frame_id \in {0, 1} :
       /\ conv_meta = create_conversation(ConvOwner, purpose, frame_id)
       /\ frames = IF frame_id = 1
                     THEN create_frame(<<>>, "feature", FrameAuthor, FrameContent(FullSynthesis))
                     ELSE <<>>
  /\ conv_messages = <<>>
  /\ conv_state = NewConversationState
  /\ last = NoRequest
  /\ probe = [reqs |-> [i \in Requests |-> IdleRequest], running |-> 0, received |-> 0]

Receives(i) ==
  /\ probe.reqs[i].pc \in {"idle", "done"}
  /\ probe.received < MaxTurns + 1

Received(i, req, running) ==
  probe' = [reqs |-> [probe.reqs EXCEPT ![i] = [req EXCEPT !.n = probe.received + 1]],
            running |-> running, received |-> probe.received + 1]

\* GET /{conv_id}
conc_get_conversation ==
  /\ \E i \in Requests :
       /\ Receives(i)
       /\ LET c == get_conversation(conv_meta, conv_messages, conv_state)
              req == [IdleRequest EXCEPT !.op = "get", !.conv = c.conv]
          IN Received(i, IF c.ok THEN Responded(req, 200, NoError)
                               ELSE Responded(req, 404, c.error), probe.running)
  /\ UNCHANGED <<ai_config, conv_meta, conv_messages, conv_state, frames, last>>

\* DELETE /{conv_id}: shutil.rmtree of the directory.  The requests in
\* flight note where they were.
conc_delete_conversation ==
  /\ \E i \in Requests :
       /\ Receives(i)
       /\ LET req == [IdleRequest EXCEPT !.op = "delete"]
              noted == [j \in Requests |->
                          IF probe.reqs[j].pc \in {"ai", "write"} /\ probe.reqs[j].gone = "no"
                            THEN [probe.reqs[j] EXCEPT !.gone = probe.reqs[j].pc]
                            ELSE probe.reqs[j]]
          IN IF ~conv_dir_exists(conv_meta)
               THEN /\ Received(i, Responded(req, 404, ConversationNotFound), probe.running)
                    /\ UNCHANGED <<conv_meta, conv_messages, conv_state>>
               ELSE /\ probe' = [reqs |-> [noted EXCEPT
                                             ![i] = [Responded(req, 204, NoError) EXCEPT
                                                       !.n = probe.received + 1]],
                                 running |-> probe.running,
                                 received |-> probe.received + 1]
                    /\ conv_meta' = DeletedMeta
                    /\ conv_messages' = <<>>
                    /\ conv_state' = NewConversationState
  /\ UNCHANGED <<ai_config, frames, last>>

\* a coroutine from its start to its AI call: get_conversation, the checks
\* of the handler, and for send_message the reactivation of a synthesized
\* conversation
conc_handler_starts ==
  /\ probe.running = 0
  /\ \E i \in Requests, op \in AsyncOps :
       /\ Receives(i)
       /\ LET c == get_conversation(conv_meta, conv_messages, conv_state)
              req == [IdleRequest EXCEPT
                        !.op = op, !.conv = c.conv,
                        !.frame_content = ReviewFrameContent(frames, c.conv.meta.frame_id)]
              rejected ==
                CASE op = "message" -> message_rejects(c.conv.meta.status)
                  [] op = "summarize" -> c.conv.meta.purpose # "review"
                  [] OTHER -> synthesize_rejects(c.conv.meta.status)
          IN IF ~c.ok
               THEN /\ Received(i, Responded(req, 404, c.error), 0)
                    /\ UNCHANGED conv_meta
               ELSE IF rejected
                 THEN /\ Received(i, Responded(req, 400, NoError), 0)
                      /\ UNCHANGED conv_meta
                 ELSE /\ conv_meta' = IF op = "message" /\ conv_meta.status = "synthesized"
                                        THEN update_status(conv_meta, "active")
                                        ELSE conv_meta
                      /\ Received(i, [req EXCEPT !.pc = "ai", !.conv.meta = conv_meta'], 0)
  /\ UNCHANGED <<ai_config, conv_messages, conv_state, frames, last>>

\* the AI call of a coroutine returns or raises.  A failed call ends the
\* request (502, or unhandled for synthesize_frame); preview and
\* summarize_review respond; send_message and synthesize_frame go on to
\* their writes.
conc_ai_returns ==
  /\ probe.running = 0
  /\ \E i \in Requests, final \in {"ok", "raise"} :
       LET req == probe.reqs[i]
           conv == req.conv
           structuredUp == Upstream(0, EmptyAIResponse,
                                    IF final = "ok" THEN Ok(TurnAnswer(i)) ELSE Raise(AuthError))
           textUp == Upstream(0, EmptyContent,
                              IF final = "ok" THEN Ok(Reply(i)) ELSE Raise(AuthError))
           synthUp == Upstream(0, EmptyAIResponse,
                               IF final = "ok" THEN Ok(Synthesis(i)) ELSE Raise(AuthError))
           t == IF IsReviewTurn(conv.meta)
                  THEN process_review_turn(conv.messages, conv.state, UserContent(i),
                                           req.frame_content, NoneV, ai_config, textUp)
                  ELSE process_turn(conv.messages, conv.state, UserContent(i), "", NoneV,
                                    ai_config, structuredUp, UnusedUp)
           a == agent_synthesize_frame(ai_config, synthUp)
           s == _call_ai(ai_config, synthUp)
           next ==
             CASE req.op = "message" ->
                    IF t.ok
                      THEN [req EXCEPT !.pc = "write", !.turn = t.turn,
                                       !.todo = send_message_writes]
                      ELSE Responded(req, 502, t.error)
               [] req.op = "preview" ->
                    IF a.ok THEN Responded([req EXCEPT !.content = a.content], 200, NoError)
                            ELSE Responded(req, 502, a.error)
               [] req.op = "summarize" ->
                    IF s.ok THEN Responded(req, 200, NoError) ELSE Responded(req, 502, s.error)
               [] req.op = "synthesize" ->
                    IF a.ok
                      THEN [req EXCEPT !.pc = "write", !.content = a.content,
                                       !.todo = synthesize_writes(conv.meta.frame_id)]
                      ELSE Responded(req, 500, a.error)
       IN /\ req.pc = "ai"
          /\ probe' = [probe EXCEPT !.reqs[i] = next,
                                    !.running = IF next.pc = "write" THEN i ELSE 0]
  /\ UNCHANGED <<ai_config, conv_meta, conv_messages, conv_state, frames, last>>

\* the request once a service call of its write block returned
Wrote(req) ==
  IF Len(req.todo) = 1 THEN Responded(req, 200, NoError) ELSE [req EXCEPT !.todo = Tail(@)]

\* the next service call of the coroutine that is writing: every call of
\* the conversation service raises not-found when the directory is missing
\* (unhandled: 500); the frame service does not look at the conversation
conc_service_call ==
  /\ probe.running # 0
  /\ LET i == probe.running
         req == probe.reqs[i]
         call == Head(req.todo)
         conv == req.conv
         frame_type_str == IF conv.state.frame_type # NoneV THEN conv.state.frame_type
                                                            ELSE "feature"
         ends(r) == probe' = [probe EXCEPT !.reqs[i] = r,
                                           !.running = IF r.pc = "done" THEN 0 ELSE i]
     IN IF call = "frame"
          THEN /\ UNCHANGED <<conv_meta, conv_messages, conv_state>>
               /\ IF frame_type_str \notin FrameTypes
                    THEN /\ ends(Responded(req, 500, [cls |-> "ValueError",
                                                       msg |-> "not a valid FrameType"]))
                         /\ UNCHANGED frames
                    ELSE IF conv.meta.frame_id # 0 /\ FrameExists(frames, conv.meta.frame_id)
                      THEN /\ frames' = update_frame_content(frames, conv.meta.frame_id,
                                                             FrameContent(req.content))
                           /\ ends(Wrote([req EXCEPT !.frame_id = conv.meta.frame_id]))
                      ELSE /\ Len(frames) < MaxFrames + 1
                           /\ frames' = create_frame(frames, frame_type_str, conv.meta.owner,
                                                     FrameContent(req.content))
                           /\ ends(Wrote([req EXCEPT !.frame_id = Len(frames) + 1]))
          ELSE /\ UNCHANGED frames
               /\ IF ~conv_dir_exists(conv_meta)
                    THEN /\ ends(Responded(req, 500, ConversationNotFound))
                         /\ UNCHANGED <<conv_meta, conv_messages, conv_state>>
                    ELSE CASE call \in {"user", "assistant"} ->
                                LET messages == read_messages(conv_messages, conv.messages)
                                    content == IF call = "user" THEN UserContent(i)
                                                                ELSE req.turn.response
                                IN /\ conv_messages' = add_message(messages, call, content)
                                   /\ ends(Wrote([req EXCEPT
                                                    !.ids = Append(@, Len(messages) + 1)]))
                                   /\ UNCHANGED <<conv_meta, conv_state>>
                           [] call = "state" ->
                                /\ conv_state' = req.turn.updated_state
                                /\ ends(Wrote(req))
                                /\ UNCHANGED <<conv_meta, conv_messages>>
                           [] call = "link" ->
                                /\ conv_meta' = link_frame(conv_meta, req.frame_id)
                                /\ ends(Wrote(req))
                                /\ UNCHANGED <<conv_messages, conv_state>>
                           [] call = "status" ->
                                /\ conv_meta' = update_status(conv_meta, "synthesized")
                                /\ ends(Wrote(req))
                                /\ UNCHANGED <<conv_messages, conv_state>>
  /\ UNCHANGED <<ai_config, last>>

NextConc ==
  \/ conc_get_conversation
  \/ conc_delete_conversation
  \/ conc_handler_starts
  \/ conc_ai_returns
  \/ conc_service_call

SpecConc == InitConc /\ [][NextConc]_vars

\* ------------------------------------------- a request, call by call
\* The turn of process_turn / process_review_turn and the AI calls of
\* synthesize_frame unfolded into their suspension points: every upstream
\* call and every backoff sleep is a step.  probe holds the position: pc
\* (idle, call, sleep, replied, failed), the request (op), the call mode,
\* the attempt of the retry loop, the error in hand, the number of requests
\* dispatched, the configuration the handler resolved, the modes of the
\* upstream calls made so far, the providers they were sent to and whether
\* one of them was made after the singleton had been rebound.
\* what one upstream call can do: structured replies are parsed, free-text
\* replies are not
StepOutcomes(mode) ==
  {Ok("v")} \cup
  {Raise(e) : e \in IF mode = "text" THEN AllFailures \ ParseFailures ELSE AllFailures}

\* `for attempt in range(max_retries + 1)`: the next iteration
\* variant: the loop counter does not advance
NextAttempt_same(attempt) == attempt

NextAttempt(attempt) == attempt + 1

\* variant: one more attempt than max_retries + 1
GivesUp_late(e, attempt, maxRetries) == ~is_retryable(e) \/ attempt > maxRetries

\* `if not is_retryable or attempt >= max_retries: raise`
GivesUp(e, attempt, maxRetries) == ~is_retryable(e) \/ attempt >= maxRetries

\* variant: the agent asks the singleton again on every call
agent_config_global(held, current) == current

\* `self.config = config or AIConfig()`: the agent keeps the configuration
\* the handler passed, `current` is the singleton at the time of the call
agent_config(held, current) == held

\* the provider branch of _do_call reaches a client (anything else raises
\* "Unsupported provider" without a call)
ReachesUpstream(provider) == is_openai_compatible(provider) \/ provider = "anthropic"

\* the calls of a request that are kept: two more than both retry loops
\* can make
CallsKept == 2 * (max_retries + 2)

IdleStep(kind, turns) ==
  [pc |-> "idle", kind |-> kind, op |-> "none", mode |-> "none", attempt |-> 0,
   error |-> NoError, turns |-> turns, config |-> NoneV, calls |-> <<>>,
   used |-> {}, reloaded |-> FALSE]

InitSteps ==
  /\ ai_config \in Providers
  /\ \E purpose \in Purposes :
       /\ conv_meta = create_conversation(ConvOwner, purpose, IF purpose = "review" THEN 1 ELSE 0)
       /\ frames = IF purpose = "review"
                     THEN create_frame(<<>>, "feature", FrameAuthor, FrameContent(FullSynthesis))
                     ELSE <<>>
       /\ probe = IdleStep(purpose, 0)
  /\ conv_messages = <<>>
  /\ conv_state = NewConversationState
  /\ last = NoRequest

\* send_message: `config = get_ai_config()`, then the handler calls the
\* agent: a review turn starts in free-text mode, an authoring turn in
\* structured mode
DispatchTurn ==
  /\ probe.pc \in {"idle", "replied", "failed"}
  /\ probe.turns < MaxTurns
  /\ probe' = [IdleStep(probe.kind, probe.turns + 1) EXCEPT
                 !.pc = "call", !.op = "message",
                 !.mode = IF IsReviewTurn(conv_meta) THEN "text" ELSE "structured",
                 !.config = ai_config]
  /\ UNCHANGED <<ai_config, conv_meta, conv_messages, conv_state, frames, last>>

\* synthesize_frame: `config = get_ai_config()`, then agent.synthesize_frame
DispatchSynthesize ==
  /\ probe.pc \in {"idle", "replied", "failed"}
  /\ probe.turns < MaxTurns
  /\ ~synthesize_rejects(conv_meta.status)
  /\ probe' = [IdleStep(probe.kind, probe.turns + 1) EXCEPT
                 !.pc = "call", !.op = "synthesize", !.mode = "synthesis",
                 !.config = ai_config]
  /\ UNCHANGED <<ai_config, conv_meta, conv_messages, conv_state, frames, last>>

\* one upstream call returns or raises; the retry loop, process_turn's
\* except clause and synthesize_frame's handler decide what comes next: a
\* failed synthesis is the end, a synthesis that succeeded is followed by
\* the evaluator's call (same configuration), whose failure is swallowed
UpstreamReturns ==
  /\ probe.pc = "call"
  /\ \E u \in StepOutcomes(probe.mode) :
       LET provider == agent_config(probe.config, ai_config)
           r == IF probe.mode = "text"
                  THEN DoCallText(provider, <<u>>)[1]
                  ELSE DoCall(provider, <<u>>)[1]
           called == IF ReachesUpstream(provider)
                       THEN [probe EXCEPT !.calls = IF Len(@) < CallsKept
                                                      THEN Append(@, probe.mode) ELSE @,
                                          !.used = @ \cup {provider},
                                          !.reloaded = @ \/ ai_config # probe.config]
                       ELSE probe
       IN probe' =
            IF r.ok
              THEN IF probe.mode = "synthesis"
                     THEN [called EXCEPT !.pc = "call", !.mode = "evaluation",
                                         !.attempt = 0, !.error = NoError]
                     ELSE [called EXCEPT !.pc = "replied", !.error = NoError]
              ELSE IF ~GivesUp(r.error, probe.attempt, max_retries)
                THEN [called EXCEPT !.pc = "sleep", !.error = r.error]
                ELSE IF probe.mode = "structured" /\ FallbackCatches(r.error)
                  THEN [called EXCEPT !.pc = "call", !.mode = "text", !.attempt = 0,
                                      !.error = r.error]
                  ELSE IF probe.mode = "evaluation"
                    THEN [called EXCEPT !.pc = "replied", !.error = r.error]
                    ELSE [called EXCEPT !.pc = "failed", !.error = r.error]
  /\ UNCHANGED <<ai_config, conv_meta, conv_messages, conv_state, frames, last>>

\* asyncio.sleep(delay) returns and the loop goes to its next iteration
BackoffEnds ==
  /\ probe.pc = "sleep"
  /\ probe' = [probe EXCEPT !.pc = "call", !.attempt = NextAttempt(probe.attempt)]
  /\ UNCHANGED <<ai_config, conv_meta, conv_messages, conv_state, frames, last>>

\* the singleton can be rebound at any point of a request in flight
NextSteps ==
  DispatchTurn \/ DispatchSynthesize \/ UpstreamReturns \/ BackoffEnds \/ reload_ai_config

\* every upstream call eventually returns or raises, every sleep ends
SpecSteps ==
  InitSteps /\ [][NextSteps]_vars /\ WF_vars(UpstreamReturns) /\ WF_vars(BackoffEnds)

\* ------------------------- evaluator, generator, refiner, review summary
\* The agents applied on their own.  probe holds the number of operations
\* done, the last operation with its request, the first upstream reply and
\* the result, the refiner's history and the evaluation saved on the frame
\* (a sequence of none or one).
MaxCalls == 2

AgentProviders == Providers \cup {"minimax"}

IndexErr == [cls |-> "IndexError", msg |-> "list index out of range"]
TypeErr == [cls |-> "TypeError", msg |-> "the JSON object must be str, bytes or bytearray, not NoneType"]
JSONDecodeExpecting == [cls |-> "JSONDecodeError", msg |-> "Expecting value: line 1 column 1 (char 0)"]
ValidationErr == [cls |-> "ValidationError", msg |-> "1 validation error"]
HistoryUnsupported == [cls |-> "ValueError", msg |-> "History not supported for provider"]

\* the result of one agent call: path is the provider branch taken, calls
\* the number of upstream calls made
AgentCall(path, r) ==
  [ok |-> r.ok, path |-> path, calls |-> IF path = "none" THEN 0 ELSE r.calls,
   sleeps |-> r.sleeps] @@ r

\* _call_openai / _call_anthropic of the evaluator and the generator: the
\* content goes to parse_json_response; an anthropic reply without a
\* content block fails on content[0]
ParsedReply(path, u) ==
  IF u = Raise(EmptyContent)
    THEN IF path = "openai" THEN Raise(EmptyAIResponse) ELSE Raise(IndexErr)
    ELSE u

\* _call_openai / _call_anthropic of the refiner: the content goes to
\* json.loads
LoadedReply(path, u) ==
  CASE u = Raise(EmptyContent) -> IF path = "openai" THEN Raise(TypeErr) ELSE Raise(IndexErr)
    [] u = Raise(EmptyAIResponse) -> Raise(JSONDecodeExpecting)
    [] OTHER -> u

\* the branch of _do_call taken where is_openai_compatible decides
CompatiblePath(provider) ==
  IF is_openai_compatible(provider) THEN "openai"
  ELSE IF provider = "anthropic" THEN "anthropic" ELSE "none"

\* the branch taken where `provider == "openai"` decides
OpenAIOnlyPath(provider) ==
  IF provider = "openai" THEN "openai"
  ELSE IF provider = "anthropic" THEN "anthropic" ELSE "none"

\* what a result keeps of the call that produced it
CallMeta(r) == [path |-> r.path, calls |-> r.calls, sleeps |-> r.sleeps]

\* a single invocation, no retry around it
SingleCall(r) ==
  [ok |-> r.ok, calls |-> 1, sleeps |-> <<>>] @@ r

\* EvaluatorAgent._call_ai
evaluator_call_ai(provider, upstream) ==
  LET path == CompatiblePath(provider)
      fn == [i \in DOMAIN upstream |->
               IF path = "none" THEN Raise(UnsupportedProvider)
               ELSE ParsedReply(path, upstream[i])]
  IN AgentCall(path, call_ai_with_retry(fn, max_retries, retry_delay))

\* GeneratorAgent._call_ai
generator_call_ai(provider, upstream) ==
  LET path == OpenAIOnlyPath(provider)
  IN AgentCall(path, SingleCall(IF path = "none" THEN Raise(UnsupportedProvider)
                                ELSE ParsedReply(path, upstream[1])))

\* RefinerAgent._call_ai
refiner_call_ai(provider, upstream) ==
  LET path == OpenAIOnlyPath(provider)
  IN AgentCall(path, SingleCall(IF path = "none" THEN Raise(UnsupportedProvider)
                                ELSE LoadedReply(path, upstream[1])))

\* RefinerAgent._call_ai_with_history
refiner_call_ai_with_history(provider, upstream) ==
  LET path == IF provider = "openai" THEN "openai" ELSE "none"
  IN AgentCall(path, SingleCall(IF path = "none" THEN Raise(HistoryUnsupported)
                                ELSE LoadedReply(path, upstream[1])))

\* ConversationAgent._call_ai seen as an agent call
conversation_call_ai(provider, upstream) ==
  AgentCall(CompatiblePath(provider), _call_ai(provider, upstream))

\* variant: a score out of range is clamped into it
EvaluationResult_clamped(score, breakdown, feedback, issues) ==
  Ok([score |-> IF score < 0 THEN 0 ELSE IF score > 100 THEN 100 ELSE score,
      breakdown |-> breakdown, feedback |-> feedback, issues |-> issues])

\* EvaluationResult(score=..., ...): Field(ge=0, le=100) and validate_score
EvaluationResult(score, breakdown, feedback, issues) ==
  IF score < 0 \/ score > 100
    THEN Raise(ValidationErr)
    ELSE Ok([score |-> score, breakdown |-> breakdown, feedback |-> feedback,
             issues |-> issues])

\* EvaluatorAgent.evaluate
evaluate(provider, upstream) ==
  LET r == evaluator_call_ai(provider, upstream)
  IN IF ~r.ok THEN r
     ELSE LET validated == EvaluationResult(DictGet(r.value, "score", 0),
                                            DictGet(r.value, "breakdown", EmptyDict),
                                            DictGet(r.value, "feedback", ""),
                                            DictGet(r.value, "issues", <<>>))
          IN validated @@ [raw |-> r.value] @@ CallMeta(r)

\* GeneratorAgent.generate
generate(provider, upstream) ==
  LET r == generator_call_ai(provider, upstream)
  IN IF ~r.ok THEN r
     ELSE Ok([content |-> DictGet(r.value, "content", ""),
              suggestions |-> DictGet(r.value, "suggestions", <<>>)]) @@ CallMeta(r)

\* RefinerAgent.refine
refine(content, provider, upstream) ==
  LET r == refiner_call_ai(provider, upstream)
  IN IF ~r.ok THEN r
     ELSE Ok([content |-> DictGet(r.value, "content", content),
              changes |-> DictGet(r.value, "changes", <<>>)]) @@ CallMeta(r)

\* RefinerAgent.add_to_history
add_to_history(history, role, content) ==
  Append(history, [role |-> role, content |-> content])

\* RefinerAgent.refine_with_history: the result and the history after it
\* variant: the instruction is recorded before the call
refine_with_history_eager(history, instruction, provider, upstream) ==
  LET r == refiner_call_ai_with_history(provider, upstream)
  IN IF ~r.ok THEN [result |-> r, history |-> add_to_history(history, "user", instruction)]
     ELSE LET validated == [content |-> DictGet(r.value, "content", ""),
                            changes |-> DictGet(r.value, "changes", <<>>)]
          IN [result |-> Ok(validated) @@ CallMeta(r),
              history |-> add_to_history(add_to_history(history, "user", instruction),
                                         "assistant", validated.content)]

refine_with_history(history, instruction, provider, upstream) ==
  LET r == refiner_call_ai_with_history(provider, upstream)
  IN IF ~r.ok THEN [result |-> r, history |-> history]
     ELSE LET validated == [content |-> DictGet(r.value, "content", ""),
                            changes |-> DictGet(r.value, "changes", <<>>)]
          IN [result |-> Ok(validated) @@ CallMeta(r),
              history |-> add_to_history(add_to_history(history, "user", instruction),
                                         "assistant", validated.content)]

\* ConversationAgent.summarize_review
Recommendations == {"approve", "revise", "rethink"}

agent_summarize_review(provider, upstream) ==
  LET r == conversation_call_ai(provider, upstream)
  IN IF ~r.ok THEN r
     ELSE Ok([summary |-> DictGet(r.value, "summary", ""),
              comments |-> DictGet(r.value, "comments", <<>>),
              recommendation |-> DictGet(r.value, "recommendation", "revise")])
          @@ [raw |-> r.value] @@ CallMeta(r)

\* what the model answers to each agent
EvalAnswers ==
  {EmptyDict} \cup {[score |-> sc, feedback |-> "f1"] : sc \in {0 - 1, 0, 50, 100, 101}}
GenAnswers == {EmptyDict, [content |-> "c1", suggestions |-> <<"s1">>]}
RefineAnswers == {EmptyDict, [content |-> "c2", changes |-> <<"ch1">>]}
ReviewAnswers ==
  {EmptyDict} \cup
  {[summary |-> "s1", recommendation |-> x] : x \in Recommendations \cup {"maybe"}}
AgentFailures == {EmptyContent, JSONDecodeErr, AuthError}
Instructions == {"i1", "i2"}

NoAgentProbe ==
  [n |-> 0, op |-> "none", request |-> "", first |-> Ok(EmptyDict), result |-> NoResult,
   history |-> <<>>, evaluation |-> <<>>]

AgentDone(op, request, upstream, result, history, evaluation) ==
  [n |-> probe.n + 1, op |-> op, request |-> request, first |-> upstream[1],
   result |-> result, history |-> history, evaluation |-> evaluation]

InitAgents ==
  /\ ai_config \in AgentProviders
  /\ conv_meta = create_conversation(ConvOwner, "review", 1)
  /\ conv_messages = ProbeHistory
  /\ conv_state = NewConversationState
  /\ frames = create_frame(<<>>, "feature", FrameAuthor, FrameContent(FullSynthesis))
  /\ last = NoRequest
  /\ probe = NoAgentProbe

\* POST /frames/{frame_id}/ai/evaluate: the evaluation is saved only when
\* evaluate returned
evaluate_frame ==
  /\ probe.n < MaxCalls
  /\ \E upstream \in Ups(EvalAnswers, AgentFailures) :
       LET r == evaluate(ai_config, upstream)
       IN probe' = AgentDone("evaluate", "", upstream, r, probe.history,
                             IF r.ok THEN <<r.value>> ELSE probe.evaluation)
  /\ UNCHANGED <<ai_config, conv_meta, conv_messages, conv_state, frames, last>>

\* POST /frames/{frame_id}/ai/generate
generate_content ==
  /\ probe.n < MaxCalls
  /\ \E upstream \in Ups(GenAnswers, AgentFailures) :
       probe' = AgentDone("generate", "", upstream, generate(ai_config, upstream),
                          probe.history, probe.evaluation)
  /\ UNCHANGED <<ai_config, conv_meta, conv_messages, conv_state, frames, last>>

\* POST /ai/chat: a single-shot refine
refine_content ==
  /\ probe.n < MaxCalls
  /\ \E instruction \in Instructions, upstream \in Ups(RefineAnswers, AgentFailures) :
       probe' = AgentDone("refine", instruction, upstream,
                          refine("c0", ai_config, upstream),
                          probe.history, probe.evaluation)
  /\ UNCHANGED <<ai_config, conv_meta, conv_messages, conv_state, frames, last>>

RefineWithHistory ==
  /\ probe.n < MaxCalls
  /\ \E instruction \in Instructions, upstream \in Ups(RefineAnswers, AgentFailures) :
       LET h == refine_with_history(probe.history, instruction, ai_config, upstream)
       IN probe' = AgentDone("refine_with_history", instruction, upstream, h.result,
                             h.history, probe.evaluation)
  /\ UNCHANGED <<ai_config, conv_meta, conv_messages, conv_state, frames, last>>

\* a caller adds an entry of its own
AddToHistory ==
  /\ probe.n < MaxCalls
  /\ \E role \in {"user", "assistant"} :
       probe' = AgentDone("add_to_history", "h0", <<Ok(EmptyDict)>>, NoResult,
                          add_to_history(probe.history, role, "h0"), probe.evaluation)
  /\ UNCHANGED <<ai_config, conv_meta, conv_messages, conv_state, frames, last>>

ClearHistory ==
  /\ probe.n < MaxCalls
  /\ probe' = AgentDone("clear_history", "", <<Ok(EmptyDict)>>, NoResult, <<>>,
                        probe.evaluation)
  /\ UNCHANGED <<ai_config, conv_meta, conv_messages, conv_state, frames, last>>

\* POST /{conv_id}/summarize-review, the agent call
summarize_review ==
  /\ probe.n < MaxCalls
  /\ \E upstream \in Ups(ReviewAnswers, AgentFailures) :
       probe' = AgentDone("summarize_review", "", upstream,
                          agent_summarize_review(ai_config, upstream),
                          probe.history, probe.evaluation)
  /\ UNCHANGED <<ai_config, conv_meta, conv_messages, conv_state, frames, last>>

NextAgents ==
  \/ evaluate_frame \/ generate_content \/ refine_content \/ RefineWithHistory
  \/ AddToHistory \/ ClearHistory \/ summarize_review

SpecAgents == InitAgents /\ [][NextAgents]_vars

\* ================================================================== claims
TransientParseFailures == ParseFailures \cup {EmptyContent}
NonTransient(e) == e # NoError /\ ~is_retryable(e)

RoleContent(messages) ==
  [i \in 1..Len(messages) |-> [role |-> messages[i].role, content |-> messages[i].content]]

\* C1: a message turn (authoring or review) whose AI call ends with a
\* non-transient error leaves the persisted message list and the persisted
\* Conversation State exactly as they were before the turn.
C1_FailedTurnPersistsNothing ==
  [][(last'.op = "message" /\ last'.code = 502 /\ NonTransient(last'.error))
       => (conv_messages' = conv_messages /\ conv_state' = conv_state)]_vars

C1_Witness ==
  /\ last.op = "message" /\ last.code = 502 /\ NonTransient(last.error)
  /\ Len(conv_messages) > 0
  /\ conv_state # NewConversationState

\* C2: the message operation writes no persisted part of the conversation
\* (messages, state, status, frame link) before the AI round-trip of the turn
\* has succeeded: a turn that ends in an AI error leaves all of them as they
\* were, so a synthesized conversation stays synthesized.
C2_NothingWrittenBeforeAI ==
  [][(last'.op = "message" /\ last'.code = 502)
       => (conv_meta' = conv_meta /\ conv_messages' = conv_messages
           /\ conv_state' = conv_state)]_vars

\* C3: a successful message turn on an active conversation extends the
\* persisted list by exactly a user message with the submitted text and then
\* an assistant message with the turn's reply, and persists the turn's state.
C3_SuccessfulTurnAppendsExchange ==
  [][(last'.op = "message" /\ last'.code = 200 /\ conv_meta.status = "active")
       => /\ Len(conv_messages') = Len(conv_messages) + 2
          /\ SubSeq(conv_messages', 1, Len(conv_messages)) = conv_messages
          /\ RoleContent(conv_messages') =
               RoleContent(conv_messages) \o
                 <<[role |-> "user", content |-> last'.request],
                   [role |-> "assistant", content |-> last'.turn.response]>>
          /\ conv_state' = last'.turn.updated_state]_vars

C3_Witness ==
  /\ last.op = "message" /\ last.code = 200
  /\ Len(conv_messages) = 4
  /\ conv_messages[3].content = last.request
  /\ conv_messages[1].content # conv_messages[3].content
  /\ conv_state = last.turn.updated_state

\* C4: in process_turn, when the structured call still fails with a parse
\* failure after all retries, a free-text call is issued with the same system
\* instruction and turn sequence, and the turn returns that text as the reply
\* with the input state and no knowledge references.
StructuredExhausted(p) ==
  /\ p.n = 1
  /\ ~p.result.structured.ok
  /\ p.result.structured.raised \in TransientParseFailures
  /\ p.result.structured.calls = max_retries + 1

C4_ParseFailureDegradesToText ==
  StructuredExhausted(probe) =>
    /\ probe.result.text.mode = "text"
    /\ probe.result.text.system = probe.result.structured.system
    /\ probe.result.text.messages = probe.result.structured.messages
    /\ probe.result.text.ok =>
         /\ probe.result.ok
         /\ probe.result.turn.response = probe.result.raw
         /\ probe.result.turn.updated_state = probe.prev
         /\ probe.result.turn.relevant_knowledge = <<>>

C4_Witness ==
  /\ StructuredExhausted(probe)
  /\ probe.result.ok
  /\ probe.result.turn.response = "t1"
  /\ probe.prev # NewConversationState
  /\ probe.result.turn.updated_state = probe.prev

\* C5: in process_turn, when the structured call fails with an error that is
\* not a parse failure (authentication, quota, connectivity, unsupported
\* provider), no free-text fallback call is attempted and that error
\* propagates to the caller.
C5_HardErrorNeverDegrades ==
  (/\ probe.n = 1
   /\ ~probe.result.structured.ok
   /\ probe.result.structured.raised \notin TransientParseFailures)
  => /\ probe.result.text.mode = "none"
     /\ ~probe.result.ok
     /\ probe.result.error = probe.result.structured.raised

\* C6: synthesize never falls back to free text: a parse failure that
\* survives the retries ends the synthesize operation with that error, and
\* then status, frame link and the frame store are unchanged.
C6_SynthesizeParseFailureIsHard ==
  [][(last'.op = "synthesize" /\ last'.ai.raised \in TransientParseFailures)
       => /\ last'.code = 500
          /\ last'.error = last'.ai.raised
          /\ ~last'.ai.text
          /\ conv_meta' = conv_meta
          /\ frames' = frames]_vars

C6_Witness ==
  /\ last.op = "synthesize" /\ last.code = 500
  /\ last.ai.raised \in TransientParseFailures
  /\ conv_meta.frame_id # 0
  /\ conv_meta.status = "active"

\* C7: after a successful process_turn, each of the five state fields the
\* parsed response omits from updated_state (or all five, when updated_state
\* is missing) has the previous state's value in the new state.
StructuredOk(p) == p.n = 1 /\ p.result.ok /\ p.result.text.mode = "none"
ParsedState(p) == DictGet(p.result.parsed, "updated_state", EmptyDict)

C7_MissingFieldKeepsPrevious ==
  StructuredOk(probe) =>
    \A f \in StateFields :
      f \notin DOMAIN ParsedState(probe) =>
        probe.result.turn.updated_state[f] = probe.prev[f]

C7_Witness ==
  /\ StructuredOk(probe)
  /\ probe.prev.sections_covered = HighCoverage
  /\ probe.prev.ready_to_synthesize
  /\ DOMAIN ParsedState(probe) = {"frame_type", "gaps"}
  /\ probe.result.turn.updated_state.sections_covered = HighCoverage
  /\ probe.result.turn.updated_state.frame_type # probe.prev.frame_type

\* C8 as stated: after a successful process_turn every section that had a
\* coverage score or extracted text before and is not mentioned in the
\* response's sections_covered / extracted_content keeps its previous value.
KeepsUnmentioned(p, field) ==
  \A k \in DOMAIN p.prev[field] :
    k \notin DOMAIN DictGet(ParsedState(p), field, EmptyDict) =>
      /\ k \in DOMAIN p.result.turn.updated_state[field]
      /\ p.result.turn.updated_state[field][k] = p.prev[field][k]

C8_PartialResponseNeverErases ==
  StructuredOk(probe) =>
    /\ KeepsUnmentioned(probe, "sections_covered")
    /\ KeepsUnmentioned(probe, "extracted_content")

\* C8 amended: the sections keep their previous values when the response
\* omits the whole sections_covered (extracted_content) field; a response that
\* carries the field replaces the whole mapping by the one it carries.
FieldKeptOrReplaced(p, field) ==
  IF field \in DOMAIN ParsedState(p)
    THEN p.result.turn.updated_state[field] = ParsedState(p)[field]
    ELSE KeepsUnmentioned(p, field)

C8_MappingKeptOrReplacedWhole ==
  StructuredOk(probe) =>
    /\ FieldKeptOrReplaced(probe, "sections_covered")
    /\ FieldKeptOrReplaced(probe, "extracted_content")

C8_Witness ==
  /\ StructuredOk(probe)
  /\ probe.prev.sections_covered = HighCoverage
  /\ "sections_covered" \in DOMAIN ParsedState(probe)
  /\ probe.result.turn.updated_state.sections_covered = PartialCoverage

\* C9: whenever the persisted state says ready_to_synthesize, every
\* applicable section (root_cause only for bug) has coverage >= 0.6.
C9_ReadyOnlyWhenCovered ==
  conv_state.ready_to_synthesize =>
    CoverageReady(conv_state.frame_type, conv_state.sections_covered)

\* C10: after a successful process_turn whose response carries
\* ready_to_synthesize, the new state's flag is the response's flag, whatever
\* the coverage numbers are.
C10_ReadinessIsTheModelsFlag ==
  (StructuredOk(probe) /\ "ready_to_synthesize" \in DOMAIN ParsedState(probe)) =>
    probe.result.turn.updated_state.ready_to_synthesize =
      ParsedState(probe).ready_to_synthesize

C10_Witness ==
  /\ StructuredOk(probe)
  /\ "ready_to_synthesize" \in DOMAIN ParsedState(probe)
  /\ ParsedState(probe).ready_to_synthesize
  /\ probe.result.turn.updated_state.ready_to_synthesize
  /\ ~CoverageReady(probe.result.turn.updated_state.frame_type,
                    probe.result.turn.updated_state.sections_covered)

\* C11: a message sent to a synthesized conversation sets its status back to
\* active, and the turn is given the sections_covered and extracted_content
\* that were persisted before the message was sent.
C11_ReactivationKeepsState ==
  [][(last'.op = "message" /\ conv_meta.status = "synthesized")
       => /\ conv_meta'.status = "active"
          /\ last'.ai.seen =
               [sections_covered |-> conv_state.sections_covered,
                extracted_content |-> conv_state.extracted_content]]_vars

C11_Witness ==
  /\ last.op = "message" /\ last.code = 200 /\ last.found = "synthesized"
  /\ conv_meta.status = "active" /\ conv_meta.frame_id # 0
  /\ Len(conv_messages) = 4
  /\ last.ai.seen.sections_covered = HighCoverage
  /\ last.ai.seen.extracted_content = Extracted1

\* C12: for a conversation that is neither active nor synthesized, message
\* and synthesize are both rejected with the bad-state error, without an AI
\* call and with messages, state, status, frame link and frames unchanged.
C12_AbandonedRejectsBoth ==
  [][(last'.op \in {"message", "synthesize"}
      /\ conv_meta.status \notin {"active", "synthesized"})
       => /\ last'.code = 400
          /\ last'.ai = NoAI
          /\ conv_meta' = conv_meta
          /\ conv_messages' = conv_messages
          /\ conv_state' = conv_state
          /\ frames' = frames]_vars

C12_Witness ==
  /\ last.op = "synthesize" /\ last.code = 400 /\ last.found = "abandoned"
  /\ conv_meta.status = "abandoned"
  /\ conv_meta.purpose = "review" /\ conv_meta.frame_id # 0

\* C13: a message turn never moves a conversation to synthesized: after a
\* message turn the status is active, also when the model flags the state
\* ready; the status becomes synthesized only by a successful synthesize.
C13_OnlySynthesizeSynthesizes ==
  [][/\ (last'.op = "message" /\ last'.code \in {200, 502})
          => conv_meta'.status = "active"
     /\ last'.op = "message" => conv_meta'.status # "synthesized"
     /\ (conv_meta'.status = "synthesized" /\ conv_meta.status # "synthesized")
          => (last'.op = "synthesize" /\ last'.code = 200)]_vars

C13_Witness ==
  /\ last.op = "message" /\ last.code = 200
  /\ last.turn.updated_state.ready_to_synthesize
  /\ conv_state.ready_to_synthesize
  /\ conv_meta.status = "active"

\* frames written by create_frame on behalf of the conversation's owner
CreatedFor(fs, owner) == {i \in 1..Len(fs) : fs[i].exists /\ fs[i].owner = owner}

C15_ReviewTurnKeepsState ==
  [][(last'.op = "message" /\ conv_meta.purpose = "review")
       => conv_state' = conv_state]_vars

\* C16: no operation invoked on a conversation of purpose review changes
\* any of the five content sections of the Frame it is linked to.
C16_ReviewedFrameReadOnly ==
  [][(conv_meta.purpose = "review" /\ FrameExists(frames, conv_meta.frame_id)
      /\ last'.op \in {"message", "synthesize"})
       => /\ FrameExists(frames', conv_meta.frame_id)
          /\ frames'[conv_meta.frame_id].content = frames[conv_meta.frame_id].content]_vars

TransientAt(fn, i) == ~fn[i].ok /\ fn[i].error \in TransientParseFailures

\* C17: an operation that fails twice with a transient parse failure and
\* then succeeds: the success value is returned after exactly 3 invocations
\* and exactly two sleeps, of base and then 2 x base.
C17_TwoFailuresThenSuccess ==
  (/\ probe.n = 1
   /\ probe.max_retries >= 2
   /\ TransientAt(probe.fn, 1) /\ TransientAt(probe.fn, 2)
   /\ probe.fn[3].ok)
  => /\ probe.result.ok
     /\ probe.result.value = probe.fn[3].value
     /\ probe.result.calls = 3
     /\ probe.result.sleeps = <<probe.retry_delay, 2 * probe.retry_delay>>

C17_Witness ==
  /\ probe.n = 1
  /\ probe.max_retries = max_retries
  /\ probe.retry_delay = 3 * retry_delay
  /\ probe.fn[1] = Raise(EmptyAIResponse) /\ probe.fn[2] = Raise(JSONDecodeErr)
  /\ probe.fn[3].ok /\ ~probe.fn[4].ok
  /\ probe.result.ok /\ probe.result.calls = 3

UpstreamKinds == {"AuthenticationError", "RateLimitError", "APIConnectionError"}

\* C18: an authentication, quota or connectivity failure raised on any
\* attempt is never retried: the operation is not invoked again, no sleep
\* follows, and that error propagates.
C18_FatalNeverRetried ==
  probe.n = 1 =>
    \A i \in 1..probe.result.calls :
      (~probe.fn[i].ok /\ probe.fn[i].error.cls \in UpstreamKinds)
        => /\ probe.result.calls = i
           /\ Len(probe.result.sleeps) = i - 1
           /\ ~probe.result.ok
           /\ probe.result.error = probe.fn[i].error

\* C19: with max_retries = N, an operation that always fails transiently is
\* invoked exactly N+1 times, with exactly N sleeps, the k-th (k = 0..N-1)
\* of base x 2^k, none after the last attempt, and the last attempt's error
\* is raised.
C19_ExhaustedRetries ==
  (probe.n = 1 /\ \A i \in 1..(probe.max_retries + 1) : TransientAt(probe.fn, i))
  => /\ ~probe.result.ok
     /\ probe.result.calls = probe.max_retries + 1
     /\ Len(probe.result.sleeps) = probe.max_retries
     /\ \A k \in 0..(probe.max_retries - 1) :
          probe.result.sleeps[k + 1] = probe.retry_delay * (2 ^ k)
     /\ probe.result.error = probe.fn[probe.max_retries + 1].error

C19_Witness ==
  /\ probe.n = 1
  /\ probe.max_retries = max_retries
  /\ \A i \in 1..(max_retries + 1) : TransientAt(probe.fn, i)
  /\ probe.fn[max_retries + 1].error # probe.fn[1].error
  /\ probe.result.sleeps = <<1, 2, 4, 8>>
  /\ probe.result.error = probe.fn[max_retries + 1].error

\* C20: whenever a message turn ends in an error, also when one of the
\* writes after a successful AI call fails, either all of the turn's writes
\* (user message, assistant message, state) are persisted or none is.
C20_TurnWritesAllOrNothing ==
  [][(last'.op = "message" /\ last'.code # 200)
       => \/ (conv_messages' = conv_messages /\ conv_state' = conv_state)
          \/ /\ conv_messages' =
                  add_message(add_message(conv_messages, "user", last'.request),
                              "assistant", last'.turn.response)
             /\ conv_state' = last'.turn.updated_state]_vars

\* C21: every dispatched message turn terminates: when each upstream call
\* eventually returns or raises, a turn in progress eventually ends with a
\* reply or with an error; it never retries forever.
C21_TurnTerminates ==
  (probe.pc \in {"call", "sleep"}) ~> (probe.pc \in {"replied", "failed"})

\* an authoring turn that ended in an error on the last attempt of its
\* free-text fallback
C21_Witness ==
  /\ probe.pc = "failed" /\ probe.kind = "authoring"
  /\ probe.mode = "text" /\ probe.attempt = max_retries
  /\ is_retryable(probe.error)

\* C22: the evaluation score is bounded and never clamped: when the model's
\* score lies in 0..100 (0 and 100 included) evaluate returns a result with
\* that very score, and when it lies outside (-1, 101) evaluate fails with a
\* validation error and the evaluation saved on the frame stays as it was.
C22_ScoreBoundedNeverClamped ==
  [][(probe'.op = "evaluate" /\ "raw" \in DOMAIN probe'.result)
       => LET score == DictGet(probe'.result.raw, "score", 0)
          IN IF score >= 0 /\ score <= 100
               THEN /\ probe'.result.ok
                    /\ probe'.result.value.score = score
                    /\ probe'.evaluation = <<probe'.result.value>>
               ELSE /\ ~probe'.result.ok
                    /\ probe'.result.error = ValidationErr
                    /\ probe'.evaluation = probe.evaluation]_vars

\* a score of 101 rejected after a score of 100 was saved
C22_Witness ==
  /\ probe.op = "evaluate" /\ "raw" \in DOMAIN probe.result
  /\ DictGet(probe.result.raw, "score", 0) = 101
  /\ ~probe.result.ok
  /\ probe.evaluation # <<>> /\ probe.evaluation[1].score = 100

\* C23: in every persisted Conversation State the frame category is bug,
\* feature, exploration or unset, whatever category the model's response
\* carried.
C23_FrameCategoryValid ==
  conv_state.frame_type \in FrameTypes \cup {NoneV}

\* C24: in every persisted Conversation State sections_covered maps only
\* the five section names and every score lies in [0.0, 1.0], whatever the
\* model returned.
C24_CoverageInRange ==
  /\ DOMAIN conv_state.sections_covered \subseteq SectionKeys
  /\ \A k \in DOMAIN conv_state.sections_covered :
       conv_state.sections_covered[k] >= 0 /\ conv_state.sections_covered[k] <= 10

\* C25: every result returned by summarize_review has a recommendation
\* that is one of approve, revise, rethink, whatever the model returned.
C25_RecommendationInSet ==
  (probe.op = "summarize_review" /\ probe.result.ok)
    => probe.result.value.recommendation \in Recommendations

\* C26: each of the evaluation, generation and refinement agents retries:
\* when the first upstream reply of an agent call is a transient parse
\* failure (empty or unparsable output), the agent calls upstream again.
C26_AgentsRetryTransient ==
  (/\ probe.op \in {"evaluate", "generate", "refine"}
   /\ probe.result.path # "none"
   /\ probe.first \in {Raise(e) : e \in TransientParseFailures})
    => probe.result.calls >= 2

\* C27: provider dispatch is the same for every agent: openai, minimax and
\* glm go through the OpenAI-compatible path, anthropic through the second
\* path, and any other provider fails with an unsupported-provider error
\* without an upstream call.
C27_UniformDispatch ==
  probe.op \in {"summarize_review", "evaluate", "generate", "refine"}
    => IF is_openai_compatible(ai_config) THEN probe.result.path = "openai"
       ELSE IF ai_config = "anthropic" THEN probe.result.path = "anthropic"
       ELSE /\ probe.result.path = "none" /\ probe.result.calls = 0
            /\ ~probe.result.ok /\ probe.result.error = UnsupportedProvider

\* C28: an upstream reply with no usable text always produces an error and
\* never a reply: an empty string is never returned as a turn's reply nor
\* persisted as an assistant message.
C28_EmptyReplyIsAnError ==
  /\ (last.op = "message" /\ last.code = 200) => last.turn.response # ""
  /\ \A i \in 1..Len(conv_messages) :
       conv_messages[i].role = "assistant" => conv_messages[i].content # ""

\* C29: the refiner's history: a successful refine_with_history appends
\* the instruction as a user entry and then the result as an assistant
\* entry, a failing one leaves the history unchanged, single-shot refine
\* never changes it, and clear_history empties it.
C29_HistoryRecordsSuccesses ==
  [][CASE probe'.op = "refine_with_history" ->
            IF probe'.result.ok
              THEN probe'.history =
                     probe.history \o
                       <<[role |-> "user", content |-> probe'.request],
                         [role |-> "assistant", content |-> probe'.result.value.content]>>
              ELSE probe'.history = probe.history
       [] probe'.op = "refine" -> probe'.history = probe.history
       [] probe'.op = "clear_history" -> probe'.history = <<>>
       [] OTHER -> TRUE]_vars

\* a failing history-mode call after a successful one
C29_Witness ==
  /\ probe.op = "refine_with_history" /\ ~probe.result.ok
  /\ probe.history = <<[role |-> "user", content |-> "i1"],
                       [role |-> "assistant", content |-> "c2"]>>
  /\ probe.request = "i2"

\* the request with the given content
RequestOf(content) == CHOOSE q \in MessageRequests : q.content = content

\* C30: a failure of the semantic search never fails a message turn: when
\* search raises, the turn is given an empty knowledge context and is
\* exactly the turn it would be had search returned no results, so the
\* handler ends with that turn's reply or that turn's AI error.
C30_SearchFailureIsSilent ==
  /\ [](\A q \in {x \in MessageRequests : x.search = "raise"} :
        \A structuredUp \in Ups(ValueAnswers, ServiceFailures) :
        \A textUp \in TextUpsFor(ai_config, structuredUp, ServiceFailures) :
          send_message_turn(conv_meta, q.content, q.language, "raise",
                            ai_config, structuredUp, textUp)
            = send_message_turn(conv_meta, q.content, q.language, "empty",
                                ai_config, structuredUp, textUp))
  /\ [][(/\ last'.op = "message" /\ last'.code # 400
          /\ RequestOf(last'.request).search = "raise")
           => /\ last'.ai.knowledge \in {"", NoneV}
              /\ last'.ai.raised # NoError \/ last'.ai.text \/ last'.code = 200
              /\ last'.code \in {200, 502}]_vars

\* a turn whose search raised ran with no knowledge and was persisted
C30_Witness ==
  /\ last.op = "message" /\ last.code = 200
  /\ RequestOf(last.request).search = "raise"
  /\ last.ai.knowledge = ""
  /\ conv_state = last.turn.updated_state /\ conv_state # NewConversationState

\* C33: the provider configuration is resolved once per request and is
\* immutable for it: every upstream call of a request in flight (retries,
\* the free-text fallback, the evaluation after a synthesis) goes to the
\* provider the handler resolved, whatever the singleton has become since.
C33_ConfigurationHeldPerRequest ==
  probe.used \subseteq {probe.config}

\* a synthesis whose evaluation call was made after the configuration had
\* been reloaded in flight
C33_Witness ==
  /\ probe.op = "synthesize" /\ probe.pc = "replied"
  /\ probe.reloaded /\ ai_config # probe.config
  /\ probe.calls = <<"synthesis", "evaluation">>

CountOf(calls, mode) == Cardinality({i \in DOMAIN calls : calls[i] = mode})

C31_CommitFailureNeverFails ==
  ("git" \in DOMAIN last /\ last.git = "raise") =>
    CASE last.op = "synthesize" ->
           /\ last.code = 200
           /\ conv_meta.status = "synthesized"
           /\ conv_meta.frame_id = last.response.frame_id
           /\ FrameExists(frames, conv_meta.frame_id)
           /\ frames[conv_meta.frame_id].content = last.response.content
      [] last.op = "frame_create" ->
           last.code = 201 /\ FrameExists(frames, last.frame_id)
      [] last.op = "frame_update" ->
           last.code = 200 /\ frames[last.frame_id].content = last.content
      [] last.op = "frame_status" ->
           last.code = 200 /\ frames[last.frame_id].status = last.status
      [] OTHER -> last.code = 200

\* a synthesize that created and linked a frame while the commit raised
C31_Witness ==
  /\ last.op = "synthesize" /\ last.code = 200
  /\ last.git = "raise"
  /\ last.found = "active"
  /\ conv_meta.status = "synthesized"
  /\ last.response.frame_id = Len(frames)

C32_DeletionIsFinal ==
  [][~conv_dir_exists(conv_meta) =>
       /\ ~conv_dir_exists(conv_meta')
       /\ conv_messages' = <<>>
       /\ \A i \in Requests :
            probe'.reqs[i].n # probe.reqs[i].n =>
              probe'.reqs[i].pc = "done" /\ probe'.reqs[i].code = 404]_vars

\* a message turn received after the deletion and answered not-found
C32_Witness ==
  /\ ~conv_dir_exists(conv_meta)
  /\ \E i, j \in Requests :
       /\ probe.reqs[i].op = "delete" /\ probe.reqs[i].code = 204
       /\ probe.reqs[j].op = "message" /\ probe.reqs[j].code = 404
       /\ probe.reqs[j].n > probe.reqs[i].n

\* two requests of the same kind that both succeeded
BothDone(i, j, op) ==
  /\ i # j
  /\ probe.reqs[i].op = op /\ probe.reqs[i].pc = "done" /\ probe.reqs[i].code = 200
  /\ probe.reqs[j].op = op /\ probe.reqs[j].pc = "done" /\ probe.reqs[j].code = 200

\* the turn read the conversation before the other wrote its messages
ReadBefore(i, j) == Len(probe.reqs[i].conv.messages) < probe.reqs[j].ids[1]

\* C37: two message turns of one conversation that overlap (each read the
\* conversation before the other wrote): after both completed the stored
\* list holds the messages of both, each turn's user message directly
\* followed by its own reply, all ids are distinct, and the stored state is
\* the state of the turn that wrote last.
C37_OverlappingTurnsBothKept ==
  \A i, j \in Requests :
    (/\ BothDone(i, j, "message")
     /\ ReadBefore(i, j) /\ ReadBefore(j, i)
     /\ conv_dir_exists(conv_meta)) =>
      /\ \A r \in {i, j} :
           LET k == probe.reqs[r].ids[1]
           IN /\ probe.reqs[r].ids = <<k, k + 1>>
              /\ k + 1 \in DOMAIN conv_messages
              /\ conv_messages[k].role = "user"
              /\ conv_messages[k].content = UserContent(r)
              /\ conv_messages[k + 1].role = "assistant"
              /\ conv_messages[k + 1].content = probe.reqs[r].turn.response
      /\ \A a, b \in DOMAIN conv_messages :
           a # b => conv_messages[a].id # conv_messages[b].id
      /\ LET later == IF probe.reqs[i].ids[1] > probe.reqs[j].ids[1] THEN i ELSE j
         IN conv_state = probe.reqs[later].turn.updated_state

\* two authoring turns that read the empty conversation together and both
\* wrote
C37_Witness ==
  /\ conv_dir_exists(conv_meta) /\ conv_meta.purpose = "authoring"
  /\ Len(conv_messages) = 4
  /\ BothDone(1, 2, "message")
  /\ probe.reqs[1].conv.messages = <<>> /\ probe.reqs[2].conv.messages = <<>>
  /\ probe.reqs[2].ids = <<1, 2>>

\* C38: two synthesize operations that overlap on a conversation without a
\* frame link (both read it before either created a frame): after both
\* completed one frame exists for the conversation and the link refers to it.
C38_OverlappingSynthesizesOneFrame ==
  \A i, j \in Requests :
    (/\ BothDone(i, j, "synthesize")
     /\ probe.reqs[i].conv.meta.frame_id = 0
     /\ probe.reqs[j].conv.meta.frame_id = 0
     /\ conv_dir_exists(conv_meta)) =>
      /\ probe.reqs[i].frame_id = probe.reqs[j].frame_id
      /\ conv_meta.frame_id = probe.reqs[i].frame_id
      /\ Len(frames) <= 1

\* C39: a conversation deleted while a request waits for the AI stays
\* deleted and nothing is left behind: the message turn in flight persists
\* no message and no state, the synthesize in flight creates no frame, and
\* both end with an error.
C39_DeletedInFlightLeavesNothing ==
  \A i \in Requests :
    (/\ probe.reqs[i].gone = "ai" /\ probe.reqs[i].pc = "done"
     /\ probe.reqs[i].op \in {"message", "synthesize"}) =>
      /\ probe.reqs[i].code >= 400
      /\ ~conv_dir_exists(conv_meta)
      /\ probe.reqs[i].ids = <<>>
      /\ probe.reqs[i].frame_id = 0 \/ probe.reqs[i].frame_id = probe.reqs[i].conv.meta.frame_id

\* C40: in every persisted state, the states between the service calls of a
\* synthesize included, a conversation whose status is synthesized has a
\* frame link: the link is written before the status, and nothing clears it.
C40_SynthesizedIsLinked ==
  /\ [](conv_meta.status = "synthesized" => conv_meta.frame_id # 0)
  /\ [][conv_dir_exists(conv_meta') /\ conv_meta.frame_id # 0 =>
          conv_meta'.frame_id # 0]_vars

\* a synthesize on a conversation without a link that created a frame,
\* linked it and marked the conversation synthesized
C40_Witness ==
  \E i \in Requests :
    /\ probe.reqs[i].op = "synthesize" /\ probe.reqs[i].code = 200
    /\ probe.reqs[i].conv.meta.frame_id = 0
    /\ conv_meta.status = "synthesized"
    /\ conv_meta.frame_id = probe.reqs[i].frame_id

====
